---- MODULE Spec2Model ----
(***************************************************************************)
(* Verification model of the Trackly document-ingestion and AI pipeline:   *)
(*   - services/document_parser.py  (format dispatch, SpecParser)          *)
(*   - tracker/tasks.py             (knowledge merge, SpecMerge)           *)
(*   - core/tasks.py, documents/tasks.py, tracker/tasks.py,                *)
(*     documents/views.py, documents/api_views.py  (task pipeline, Spec)   *)
(***************************************************************************)
EXTENDS Integers, Sequences, FiniteSets, TLC

\* ---------------------------------------------------------------------
\* Bounds of the model
\* ---------------------------------------------------------------------
\* longest file path, counted in path tokens
MaxPathLen == 3
\* most ExtractedInformation rows in the table (SpecMerge)
MaxRecords == 2
\* most distinct data types among the rows of the table (SpecMerge)
MaxTypes == 1
\* most task messages ever sent to the broker (Spec)
MaxTasks == 3
\* most rows a view may add to a table (Spec)
MaxRows == 1
\* requests and task attempts in progress on the Response table
MaxRequests == 2
\* last day the clock reaches (SpecCleanup, SpecReminders)
MaxClock == 3
\* most create_deadline_reminders_task messages ever sent (SpecReminders)
MaxRuns == 2

VARIABLES
    \* ---- services/document_parser.py ----
    p_pc,            \* position inside parse_document
    file_path,       \* argument file_path, a sequence of path tokens
    document_type,   \* argument document_type
    lib_outcome,     \* what the extraction library / file read will do
    extractor,       \* the private extractor parse_document invoked
    parse_result,    \* the dict parse_document returns
    \* ---- database tables ----
    documents,       \* documents.Document rows, indexed by id
    extracted_info,  \* documents.ExtractedInformation rows, indexed by id
    applications,    \* tracker.Application rows, indexed by id
    questions,       \* tracker.Question rows, indexed by id
    responses,       \* tracker.Response rows (a set, one-to-one on question)
    \* ---- generate_response_task ----
    g_pc,            \* "idle", or how the last attempt ended
    g_question,      \* question_id of the last attempt
    user_info,       \* the profile handed to gemini.generate_response
    \* ---- Celery ----
    tasks,           \* every task message sent, with its retry state
    \* ---- requests and attempts in progress on the Response table ----
    inflight,        \* each with its position inside get_or_create
    \* ---- notifications ----
    notifications,   \* notifications.Notification rows (a set)
    reminders,       \* notifications.Reminder rows (a set)
    now,             \* timezone.now(), in days
    deadlines,       \* Application.deadline of each application id
    due_runs,        \* the executions of check_due_reminders_task, each with
                     \* its position in the task body
    status_history   \* tracker.ApplicationStatus rows, in order of creation

parserVars == <<p_pc, file_path, document_type, lib_outcome, extractor, parse_result>>

dbVars == <<documents, extracted_info, applications, questions, responses>>

genVars == <<g_pc, g_question, user_info>>

\* the state of the components an operation of another one never touches
notifVars == <<notifications, reminders, now, deadlines, due_runs, status_history>>

restVars == <<inflight, notifVars>>

vars == <<parserVars, dbVars, genVars, tasks, restVars>>

\* everything parse_document leaves alone
nonParserVars == <<dbVars, genVars, tasks, restVars>>

NotifIdle ==
    /\ notifications = {}
    /\ reminders = {}
    /\ now = 0
    /\ deadlines = <<>>
    /\ due_runs = <<>>
    /\ status_history = <<>>

RestIdle ==
    /\ inflight = <<>>
    /\ NotifIdle

\* =====================================================================
\* services/document_parser.py
\* =====================================================================

\* A path is a sequence of tokens: separators, dots and name fragments.
PathTokens ==
    {"/", ".", "cv", "pdf", "PDF", "docx", "doc", "png", "jpg", "JPG",
     "jpeg", "tiff", "bmp", "txt", "exe"}

FilePaths == UNION {[1..n -> PathTokens] : n \in 1..MaxPathLen}

DOCUMENT_TYPE_CHOICES == {"resume", "transcript", "certificate", "other"}

\* Behaviour of the library call made by an extractor.
LibOutcomes ==
    {"text", "blank", "empty", "raises", "tesseract_missing",
     "decode_error", "decode_error_raises"}

\* text the library hands back: real text, whitespace only, or nothing
LibText(outcome) ==
    IF outcome = "blank" THEN " " ELSE IF outcome = "empty" THEN "" ELSE "lorem"

\* str.strip() is empty
IsBlank(s) == s \in {"", " "}

\* str.rfind on a token sequence: the last index holding c, 0 when absent
RFind(p, c) ==
    LET hits == {i \in 1..Len(p) : p[i] = c}
    IN  IF hits = {} THEN 0 ELSE CHOOSE i \in hits : \A j \in hits : j <= i

\* os.path.splitext(file_path)[1]
splitext(p) ==
    LET sepIndex == RFind(p, "/")
        dotIndex == RFind(p, ".")
    IN  IF dotIndex > sepIndex
           /\ \E k \in (sepIndex + 1)..(dotIndex - 1) : p[k] # "."
        THEN SubSeq(p, dotIndex, Len(p))
        ELSE <<>>

\* str.lower()
LowerToken(t) ==
    CASE t = "PDF" -> "pdf"
      [] t = "JPG" -> "jpg"
      [] OTHER -> t

lower(s) == [i \in 1..Len(s) |-> LowerToken(s[i])]

Result(success, text, error) ==
    [success |-> success, text |-> text, error |-> error]

NoResult == Result(FALSE, "", "<not returned>")

\* (mutation of Route: the legacy '.doc' extension is not routed)
Route_NoDoc(extension) ==
    IF extension = <<".", "pdf">> THEN "_parse_pdf"
    ELSE IF extension \in {<<".", "docx">>} THEN "_parse_docx"
    ELSE IF extension \in {<<".", "png">>, <<".", "jpg">>, <<".", "jpeg">>,
                           <<".", "tiff">>, <<".", "bmp">>} THEN "_parse_image"
    ELSE IF extension = <<".", "txt">> THEN "_parse_txt"
    ELSE ""

\* the extractor parse_document routes an extension to ("" = none)
Route(extension) ==
    IF extension = <<".", "pdf">> THEN "_parse_pdf"
    ELSE IF extension \in {<<".", "docx">>, <<".", "doc">>} THEN "_parse_docx"
    ELSE IF extension \in {<<".", "png">>, <<".", "jpg">>, <<".", "jpeg">>,
                           <<".", "tiff">>, <<".", "bmp">>} THEN "_parse_image"
    ELSE IF extension = <<".", "txt">> THEN "_parse_txt"
    ELSE ""

_parse_pdf_result(outcome) ==
    IF outcome \in {"text", "blank", "empty"}
    THEN IF IsBlank(LibText(outcome))
         THEN Result(FALSE, "", "No text could be extracted from PDF")
         ELSE Result(TRUE, LibText(outcome), "")
    ELSE Result(FALSE, "", "PDF parsing error")

_parse_docx_result(outcome) ==
    IF outcome \in {"text", "blank", "empty"}
    THEN IF IsBlank(LibText(outcome))
         THEN Result(FALSE, "", "No text could be extracted from DOCX")
         ELSE Result(TRUE, LibText(outcome), "")
    ELSE Result(FALSE, "", "DOCX parsing error")

\* (mutation of _parse_image_result: the OCR text is kept on the failure path)
_parse_image_result_KeepsText(outcome) ==
    IF outcome \in {"text", "blank", "empty"}
    THEN IF IsBlank(LibText(outcome))
         THEN Result(FALSE, LibText(outcome), "No text could be extracted from image (OCR found nothing)")
         ELSE Result(TRUE, LibText(outcome), "")
    ELSE IF outcome = "tesseract_missing"
    THEN Result(FALSE, "", "Tesseract OCR not installed. OCR functionality unavailable.")
    ELSE Result(FALSE, "", "Image OCR error")

_parse_image_result(outcome) ==
    IF outcome \in {"text", "blank", "empty"}
    THEN IF IsBlank(LibText(outcome))
         THEN Result(FALSE, "", "No text could be extracted from image (OCR found nothing)")
         ELSE Result(TRUE, LibText(outcome), "")
    ELSE IF outcome = "tesseract_missing"
    THEN Result(FALSE, "", "Tesseract OCR not installed. OCR functionality unavailable.")
    ELSE Result(FALSE, "", "Image OCR error")

_parse_txt_result(outcome) ==
    IF outcome \in {"text", "blank", "empty"}
    THEN Result(TRUE, LibText(outcome), "")
    ELSE IF outcome = "decode_error"
    THEN Result(TRUE, LibText(outcome), "")
    ELSE IF outcome = "decode_error_raises"
    THEN Result(FALSE, "", "Text file encoding error")
    ELSE Result(FALSE, "", "Text file reading error")

Unsupported == Result(FALSE, "", "Unsupported file type")

\* parse_document as a function of the path and the library's behaviour
ParseDocument(path, outcome) ==
    LET target == Route(lower(splitext(path)))
    IN  CASE target = "_parse_pdf" -> _parse_pdf_result(outcome)
          [] target = "_parse_docx" -> _parse_docx_result(outcome)
          [] target = "_parse_image" -> _parse_image_result(outcome)
          [] target = "_parse_txt" -> _parse_txt_result(outcome)
          [] OTHER -> Unsupported

\* parse_document, up to the call of the extractor
parse_document ==
    /\ p_pc = "start"
    /\ LET extension == lower(splitext(file_path))
           target == Route(extension)
       IN  IF target # ""
           THEN /\ extractor' = target
                /\ p_pc' = target
                /\ UNCHANGED parse_result
           ELSE /\ extractor' = ""
                /\ parse_result' = Unsupported
                /\ p_pc' = "done"
    /\ UNCHANGED <<file_path, document_type, lib_outcome>>
    /\ UNCHANGED nonParserVars

_parse_pdf ==
    /\ p_pc = "_parse_pdf"
    /\ parse_result' = _parse_pdf_result(lib_outcome)
    /\ p_pc' = "done"
    /\ UNCHANGED <<file_path, document_type, lib_outcome, extractor>>
    /\ UNCHANGED nonParserVars

_parse_docx ==
    /\ p_pc = "_parse_docx"
    /\ parse_result' = _parse_docx_result(lib_outcome)
    /\ p_pc' = "done"
    /\ UNCHANGED <<file_path, document_type, lib_outcome, extractor>>
    /\ UNCHANGED nonParserVars

_parse_image ==
    /\ p_pc = "_parse_image"
    /\ parse_result' = _parse_image_result(lib_outcome)
    /\ p_pc' = "done"
    /\ UNCHANGED <<file_path, document_type, lib_outcome, extractor>>
    /\ UNCHANGED nonParserVars

_parse_txt ==
    /\ p_pc = "_parse_txt"
    /\ parse_result' = _parse_txt_result(lib_outcome)
    /\ p_pc' = "done"
    /\ UNCHANGED <<file_path, document_type, lib_outcome, extractor>>
    /\ UNCHANGED nonParserVars

ParserIdle ==
    /\ p_pc = "idle"
    /\ file_path = <<>>
    /\ document_type = "other"
    /\ lib_outcome = "text"
    /\ extractor = ""
    /\ parse_result = NoResult

InitParser ==
    /\ p_pc = "start"
    /\ file_path \in FilePaths
    /\ document_type \in DOCUMENT_TYPE_CHOICES
    /\ lib_outcome \in LibOutcomes
    /\ extractor = ""
    /\ parse_result = NoResult
    /\ documents = <<>>
    /\ extracted_info = <<>>
    /\ applications = <<>>
    /\ questions = <<>>
    /\ responses = {}
    /\ g_pc = "idle"
    /\ g_question = 0
    /\ user_info = <<>>
    /\ tasks = <<>>
    /\ RestIdle

NextParser ==
    \/ parse_document
    \/ _parse_pdf
    \/ _parse_docx
    \/ _parse_image
    \/ _parse_txt

SpecParser == InitParser /\ [][NextParser]_vars

\* ---------------------------------------------------------------------
\* Properties of parse_document (SpecParser)
\* ---------------------------------------------------------------------
PdfExt   == {<<".", "pdf">>}
DocxExt  == {<<".", "docx">>, <<".", "doc">>}
ImageExt == {<<".", "png">>, <<".", "jpg">>, <<".", "jpeg">>, <<".", "tiff">>, <<".", "bmp">>}
TxtExt   == {<<".", "txt">>}

\* C4: once parse_document has dispatched, the extractor it invoked is
\* determined by the lower-cased extension of file_path alone: .pdf -> PDF
\* extractor, .docx/.doc -> DOCX extractor, .png/.jpg/.jpeg/.tiff/.bmp ->
\* OCR extractor, .txt -> text reader, anything else -> no extractor and the
\* failure result 'Unsupported file type'; document_type plays no part.
C4_DispatchByExtension ==
    p_pc \notin {"idle", "start"} =>
        LET ext == lower(splitext(file_path))
        IN  /\ ext \in PdfExt   => extractor = "_parse_pdf"
            /\ ext \in DocxExt  => extractor = "_parse_docx"
            /\ ext \in ImageExt => extractor = "_parse_image"
            /\ ext \in TxtExt   => extractor = "_parse_txt"
            /\ ext \notin (PdfExt \cup DocxExt \cup ImageExt \cup TxtExt) =>
                   /\ extractor = ""
                   /\ p_pc = "done"
                   /\ parse_result = Result(FALSE, "", "Unsupported file type")

\* C4 witness: an upper-case .JPG path of a resume went to the OCR extractor
C4_Witness ==
    /\ p_pc = "done"
    /\ Len(file_path) = 3
    /\ file_path[2] = "." /\ file_path[3] = "JPG"
    /\ document_type = "resume"
    /\ extractor = "_parse_image"

\* C5: parse_document always returns (never raises) a dict success/text/error
\* in which success = false implies text = '' and success = true implies
\* error = '', whatever the extractor's library call does.
C5_ResultWellFormed ==
    /\ p_pc \in {"idle", "start", "done", "_parse_pdf", "_parse_docx", "_parse_image", "_parse_txt"}
    /\ p_pc = "done" =>
        /\ parse_result # NoResult
        /\ DOMAIN parse_result = {"success", "text", "error"}
        /\ parse_result.success \in BOOLEAN
        /\ ~parse_result.success => parse_result.text = ""
        /\ parse_result.success => parse_result.error = ""

\* C5 witness: the OCR library found only whitespace and parse_document
\* returned a failure
C5_Witness ==
    /\ p_pc = "done"
    /\ extractor = "_parse_image"
    /\ lib_outcome = "blank"
    /\ ~parse_result.success

\* =====================================================================
\* Database rows
\* =====================================================================
Users == {1, 2}

\* the signed-in user making the requests
Requesters == {1}

NULL == "null"
\* a timestamp taken from timezone.now(); only its being set is modelled
NOW == "set"

Document(user, file) ==
    [user |-> user, file |-> file, is_processed |-> FALSE, processed_at |-> NULL]

Application(user, url, title) ==
    [user |-> user, url |-> url, title |-> title, description |-> "",
     status |-> "draft"]

Question(application, order, is_extracted) ==
    [application |-> application, order |-> order, is_extracted |-> is_extracted]

\* Response.save(): a stored row with an edited_response gets a new
\* last_edited_at and the next version
ResponseSave(row, stored) ==
    IF stored /\ row.edited_response # ""
    THEN [row EXCEPT !.last_edited_at = NOW, !.version = @ + 1]
    ELSE row

\* What update_or_create writes when it updates a row.  It sets the
\* defaults on the instance and calls save(): with the whole instance
\* written ("all", Django before 4.2) what Response.save() changed is stored
\* too, with update_fields = the defaults ("defaults", Django 4.2 and later)
\* it is not.  The repository does not say which Django it runs on.
SavedFields == {"all", "defaults"}

\* the defaults of update_or_create set on a row, then save()
UpdateWithDefaults(row, generated_text, generation_prompt, saved_fields) ==
    LET instance == [row EXCEPT !.generated_response = generated_text,
                                !.is_ai_generated = TRUE,
                                !.generated_at = NOW,
                                !.generation_prompt = generation_prompt]
    IN  IF saved_fields = "all" THEN ResponseSave(instance, TRUE) ELSE instance

\* Response.objects.update_or_create(question=question, defaults={...})
ResponseUpdateOrCreate(rows, question, generated_text, generation_prompt, saved_fields) ==
    IF \E r \in rows : r.question = question
    THEN {IF r.question = question
          THEN UpdateWithDefaults(r, generated_text, generation_prompt, saved_fields)
          ELSE r : r \in rows}
    ELSE rows \cup {[id |-> Cardinality(rows) + 1,
                     question |-> question,
                     generated_response |-> generated_text,
                     edited_response |-> "",
                     is_ai_generated |-> TRUE,
                     generation_prompt |-> generation_prompt,
                     generated_at |-> NOW,
                     last_edited_at |-> NULL,
                     version |-> 1]}

\* JSON content of an ExtractedInformation row: a string (a sequence of
\* text fragments) or a list (a sequence of entries)
Str(v) == [kind |-> "str", val |-> v]
List(v) == [kind |-> "list", val |-> v]

DataTypes ==
    {"name", "email", "phone", "education", "experience", "skills",
     "certifications", "projects", "languages", "summary"}

ListEntries == {"x", "y"}

\* what extract_information_task can store: non-blank strings and
\* non-empty lists, with or without repeated entries
ContentValues ==
    {Str(<<"s1">>), Str(<<"s2">>),
     List(<<"x">>), List(<<"x", "x">>), List(<<"x", "y">>)}

\* the possible iteration orders of a Python set of list entries
HashOrders == {<<"x", "y">>, <<"y", "x">>}

Range(f) == {f[i] : i \in DOMAIN f}

\* ExtractedInformation.objects.create(document=..., data_type=..., content=...)
\* extracted_at is auto_now_add: the creation time, here a logical clock
LastExtractedAt(table) ==
    IF table = <<>> THEN 0
    ELSE CHOOSE t \in {table[i].extracted_at : i \in DOMAIN table} :
             \A i \in DOMAIN table : table[i].extracted_at <= t

ExtractedInformationCreate(table, document, data_type, content) ==
    Append(table, [document |-> document, data_type |-> data_type,
                   content |-> content,
                   extracted_at |-> LastExtractedAt(table) + 1])

\* =====================================================================
\* tracker/tasks.py: generate_response_task, the knowledge merge
\* =====================================================================

\* (mutation of FilterDocumentUser: the queryset is not restricted to the user)
FilterDocumentUser_AllUsers(table, user) ==
    DOMAIN table

\* ExtractedInformation.objects.filter(document__user=user): the row ids
FilterDocumentUser(table, user) ==
    {i \in DOMAIN table : documents[table[i].document].user = user}

\* .order_by('-extracted_at') over the rows ids of table
RECURSIVE order_by_desc(_, _)
order_by_desc(table, ids) ==
    IF ids = {} THEN <<>>
    ELSE LET m == CHOOSE i \in ids :
                     \A j \in ids : table[j].extracted_at <= table[i].extracted_at
         IN  <<table[m]>> \o order_by_desc(table, ids \ {m})

\* list(set(xs)): the distinct entries of xs, in the process's set order
list_set(xs, order) == SelectSeq(order, LAMBDA e : e \in Range(xs))

DictSet(d, key, value) ==
    [k \in (DOMAIN d) \cup {key} |-> IF k = key THEN value ELSE d[k]]

SimpleListTypes == {"skills", "certifications", "languages"}

\* (mutation of MergeInfo: complex lists are merged newest-last)
MergeInfo_Prepend(info_dict, info, order) ==
    LET data_type == info.data_type
        content == info.content
    IN  IF data_type \notin DOMAIN info_dict
        THEN DictSet(info_dict, data_type, content)
        ELSE LET existing == info_dict[data_type]
             IN  IF content.kind = "list" /\ existing.kind = "list"
                 THEN IF data_type \in SimpleListTypes
                      THEN DictSet(info_dict, data_type,
                                   List(list_set(existing.val \o content.val, order)))
                      ELSE DictSet(info_dict, data_type,
                                   List(content.val \o existing.val))
                 ELSE IF content.kind = "str" /\ existing.kind = "str"
                 THEN IF data_type = "summary"
                      THEN DictSet(info_dict, data_type,
                                   Str(existing.val \o <<"\n\n">> \o content.val))
                      ELSE info_dict
                 ELSE info_dict

\* (mutation of JoinSummary: the older summary is put first)
JoinSummary_OldestFirst(existing, content) ==
    Str(content.val \o <<"\n\n">> \o existing.val)

\* f"{existing}\n\n{content}"
JoinSummary(existing, content) ==
    Str(existing.val \o <<"\n\n">> \o content.val)

\* one iteration of "for info in extracted_info" (tracker/tasks.py 252-277)
MergeInfo(info_dict, info, order) ==
    LET data_type == info.data_type
        content == info.content
    IN  IF data_type \notin DOMAIN info_dict
        THEN DictSet(info_dict, data_type, content)
        ELSE LET existing == info_dict[data_type]
             IN  IF content.kind = "list" /\ existing.kind = "list"
                 THEN IF data_type \in SimpleListTypes
                      THEN DictSet(info_dict, data_type,
                                   List(list_set(existing.val \o content.val, order)))
                      ELSE DictSet(info_dict, data_type,
                                   List(existing.val \o content.val))
                 ELSE IF content.kind = "str" /\ existing.kind = "str"
                 THEN IF data_type = "summary"
                      THEN DictSet(info_dict, data_type, JoinSummary(existing, content))
                      ELSE info_dict
                 ELSE info_dict

RECURSIVE MergeAll(_, _, _)
MergeAll(info_dict, rows, order) ==
    IF rows = <<>> THEN info_dict
    ELSE MergeAll(MergeInfo(info_dict, Head(rows), order), Tail(rows), order)

\* user_info as generate_response_task gathers it for a user
GatherUserInfo(table, user, order) ==
    MergeAll(<<>>, order_by_desc(table, FilterDocumentUser(table, user)), order)

\* gemini._build_user_context iterates education / experience / projects
\* as lists of dicts: a string value there raises AttributeError
BuildUserContextRaises(info_dict) ==
    \E t \in {"education", "experience", "projects"} :
        t \in DOMAIN info_dict /\ info_dict[t].kind = "str"

\* (mutation of GeminiGenerateResponse: a failure returns no prompt either)
GeminiGenerateResponse_NoPrompt(gemini_ok) ==
    IF gemini_ok THEN [response |-> "answer", prompt |-> "prompt"]
    ELSE [response |-> "", prompt |-> ""]

\* gemini.generate_response: the text, '' when the API call failed
GeminiGenerateResponse(gemini_ok) ==
    [response |-> IF gemini_ok THEN "answer" ELSE "", prompt |-> "prompt"]

\* One attempt of the body of generate_response_task (tracker/tasks.py
\* 231-339).  outcome' is "success" when the body returned its result dict,
\* "raised" when it raised.
generate_response_body(question_id, order, gemini_ok, outcome) ==
    IF question_id \notin DOMAIN questions
    THEN /\ outcome = "raised"
         /\ UNCHANGED <<user_info, responses>>
    ELSE LET user == applications[questions[question_id].application].user
             info == GatherUserInfo(extracted_info, user, order)
             generation_result == GeminiGenerateResponse(gemini_ok)
         IN  /\ user_info' = info
             /\ IF BuildUserContextRaises(info)
                THEN /\ outcome = "raised"
                     /\ UNCHANGED responses
                ELSE /\ outcome = "success"
                     /\ \E saved_fields \in SavedFields :
                           responses' = ResponseUpdateOrCreate(
                               responses, question_id,
                               generation_result.response, generation_result.prompt,
                               saved_fields)


\* =====================================================================
\* core/tasks.py: task messages and exponential_backoff_retry
\* =====================================================================
\* A task message.  A retry keeps the message (Celery re-sends the same task
\* id) with retries incremented.  executions, status and step_failed record
\* the attempts made: how many times the body ran, how the last attempt ended
\* ("success", "skipped", "raised"; "" before the first), and whether the
\* pipeline step of the last attempt failed.
\* result is the dict the last attempt returned, NoReturn before it returned
NoReturn == [returned |-> FALSE]

Task(name, arg, payload, countdown) ==
    [name |-> name, arg |-> arg, payload |-> payload,
     retries |-> 0, countdown |-> countdown, state |-> "queued",
     executions |-> 0, status |-> "", step_failed |-> FALSE,
     result |-> NoReturn, chain |-> <<>>]

\* the arguments of @exponential_backoff_retry on each task
TaskConfig ==
    [process_document_task    |-> [max_retries |-> 3, base_delay |-> 60],
     extract_information_task |-> [max_retries |-> 3, base_delay |-> 60],
     scrape_url_task          |-> [max_retries |-> 5, base_delay |-> 30],
     extract_questions_task   |-> [max_retries |-> 3, base_delay |-> 60],
     generate_response_task   |-> [max_retries |-> 3, base_delay |-> 60]]

\* (mutation of Retry: the exception is swallowed, the attempt counts as done)
Retry_Swallow(ran, countdown, max_retries) ==
    [ran EXCEPT !.state = "success", !.status = "success"]

\* self.retry(exc=exc, countdown=countdown, max_retries=max_retries) in the
\* wrapper's except clause: the message is sent again with one more retry,
\* or exc propagates when the retries are used up
Retry(ran, countdown, max_retries) ==
    IF ran.retries + 1 > max_retries
    THEN [ran EXCEPT !.state = "failure", !.status = "raised"]
    ELSE [ran EXCEPT !.retries = @ + 1,
                     !.countdown = countdown,
                     !.status = "raised"]

\* (mutation of exponential_backoff_retry: one retry too many is granted)
exponential_backoff_retry_OneMore(task, raised, status, step_failed) ==
    LET max_retries == TaskConfig[task.name].max_retries
        base_delay == TaskConfig[task.name].base_delay
        retry_count == task.retries
        ran == [task EXCEPT !.executions = @ + 1, !.step_failed = step_failed]
    IN  IF ~raised
        THEN [ran EXCEPT !.state = "success", !.status = status]
        ELSE IF retry_count + 1 > max_retries + 1
        THEN [ran EXCEPT !.state = "failure", !.status = "raised"]
        ELSE [ran EXCEPT !.retries = retry_count + 1,
                         !.countdown = base_delay * (2 ^ retry_count),
                         !.status = "raised"]

\* The wrapper around a task body (core/tasks.py 135-160): the body returned
\* (raised = FALSE) or raised; on an exception self.retry re-sends the
\* message with countdown base_delay * 2^retries unless the retries are used
\* up, in which case the exception propagates and the task fails.
exponential_backoff_retry(task, raised, status, step_failed) ==
    LET max_retries == TaskConfig[task.name].max_retries
        base_delay == TaskConfig[task.name].base_delay
        retry_count == task.retries
        countdown == base_delay * (2 ^ retry_count)
        ran == [task EXCEPT !.executions = @ + 1, !.step_failed = step_failed]
    IN  IF ~raised
        THEN [ran EXCEPT !.state = "success", !.status = status]
        ELSE Retry(ran, countdown, max_retries)

\* a worker may pick up message i
Runnable(i, name) ==
    /\ i \in DOMAIN tasks
    /\ tasks[i].name = name
    /\ tasks[i].state = "queued"

\* =====================================================================
\* documents/views.py, documents/api_views.py
\* =====================================================================
WebUploadFiles == {<<"cv", ".", "txt">>}
RestUploadFiles == {<<"cv", ".", "pdf">>}

\* POST of a valid form to document_upload_view
document_upload_view(user, file) ==
    /\ Len(documents) < MaxRows
    /\ Len(tasks) < MaxTasks
    /\ documents' = Append(documents, Document(user, file))
    /\ tasks' = Append(tasks, Task("process_document_task", Len(documents) + 1, "", 0))
    /\ UNCHANGED <<extracted_info, applications, questions, responses>>
    /\ UNCHANGED <<parserVars, genVars, restVars>>

\* POST of valid data to DocumentViewSet.upload: the document is saved, then
\* "from .tasks import process_document" raises ImportError (documents/tasks.py
\* defines no such name) and the request ends in a server error
DocumentViewSet_upload(user, file) ==
    /\ Len(documents) < MaxRows
    /\ documents' = Append(documents, Document(user, file))
    /\ UNCHANGED <<extracted_info, applications, questions, responses>>
    /\ UNCHANGED <<parserVars, genVars, tasks, restVars>>

\* (mutation of DeleteExtractedInfo: the rows are kept)
DeleteExtractedInfo_Keep(table, document) == table

\* document.extracted_info.all().delete()
DeleteExtractedInfo(table, document) ==
    SelectSeq(table, LAMBDA row : row.document # document)

\* A request to reprocess_document_view for one's own document (any other
\* pk is answered 404 by get_object_or_404)
reprocess_document_view(user, pk, method) ==
    /\ pk \in DOMAIN documents
    /\ documents[pk].user = user
    /\ IF method = "POST"
       THEN /\ Len(tasks) < MaxTasks
            /\ documents' = [documents EXCEPT ![pk].is_processed = FALSE,
                                              ![pk].processed_at = NULL]
            /\ extracted_info' = DeleteExtractedInfo(extracted_info, pk)
            /\ tasks' = Append(tasks, Task("process_document_task", pk, "", 0))
       ELSE UNCHANGED <<documents, extracted_info, tasks>>
    /\ UNCHANGED <<applications, questions, responses>>
    /\ UNCHANGED <<parserVars, genVars, restVars>>

\* =====================================================================
\* documents/tasks.py
\* =====================================================================

\* (mutation of process_document_task: the extraction is sent before the
\* document is parsed)
process_document_task_SendFirst(i, outcome) ==
    /\ Runnable(i, "process_document_task")
    /\ Len(tasks) < MaxTasks
    /\ LET document_id == tasks[i].arg
           result == ParseDocument(documents[document_id].file, outcome)
       IN  /\ document_id \in DOMAIN documents
           /\ documents' = [documents EXCEPT
                               ![document_id].is_processed = result.success,
                               ![document_id].processed_at =
                                   IF result.success THEN NOW ELSE @]
           /\ tasks' = Append(
                  [tasks EXCEPT ![i] =
                      exponential_backoff_retry(tasks[i], ~result.success, "success",
                                                ~result.success)],
                  Task("extract_information_task", document_id, result.text, 2))
    /\ UNCHANGED <<extracted_info, applications, questions, responses>>
    /\ UNCHANGED <<parserVars, genVars, restVars>>

\* (mutation of MarkNotProcessed: the except branch leaves the row alone)
MarkNotProcessed_Skip(rows, document_id) == rows

\* the except branch: document.is_processed = False;
\* document.save(update_fields=['is_processed'])
MarkNotProcessed(rows, document_id) ==
    [rows EXCEPT ![document_id].is_processed = FALSE]

\* One attempt of process_document_task for message i; outcome is what the
\* parsing library does.  (No caller passes file_content.)
process_document_task(i, outcome) ==
    /\ Runnable(i, "process_document_task")
    /\ Len(tasks) < MaxTasks
    /\ LET document_id == tasks[i].arg
       IN  IF document_id \notin DOMAIN documents
           THEN \* Document.DoesNotExist
                /\ tasks' = [tasks EXCEPT ![i] =
                                exponential_backoff_retry(tasks[i], TRUE, "", FALSE)]
                /\ UNCHANGED documents
           ELSE IF documents[document_id].file = <<>>
           THEN \* ValueError: no file attached
                /\ documents' = MarkNotProcessed(documents, document_id)
                /\ tasks' = [tasks EXCEPT ![i] =
                                exponential_backoff_retry(tasks[i], TRUE, "", FALSE)]
           ELSE LET result == ParseDocument(documents[document_id].file, outcome)
                IN  IF ~result.success
                    THEN \* ValueError: failed to parse
                         /\ documents' = MarkNotProcessed(documents, document_id)
                         /\ tasks' = [tasks EXCEPT ![i] =
                                         exponential_backoff_retry(tasks[i], TRUE, "", TRUE)]
                    ELSE /\ documents' = [documents EXCEPT
                                             ![document_id].is_processed = TRUE,
                                             ![document_id].processed_at = NOW]
                         /\ tasks' = Append(
                                [tasks EXCEPT ![i] =
                                    exponential_backoff_retry(tasks[i], FALSE, "success", FALSE)],
                                Task("extract_information_task", document_id, result.text, 2))
    /\ UNCHANGED <<extracted_info, applications, questions, responses>>
    /\ UNCHANGED <<parserVars, genVars, restVars>>

\* a JSON null, and dict.get(key) with None for a missing key
None == [kind |-> "null", val |-> <<>>]

DictGet(d, key) == IF key \in DOMAIN d THEN d[key] ELSE None

\* JSON numbers and objects; a number is its digits
Number(v) == [kind |-> "number", val |-> v]
Dict(v) == [kind |-> "dict", val |-> v]

\* bool(content)
Truthy(content) ==
    CASE content.kind = "null" -> FALSE
      [] content.kind = "number" -> content.val # <<"0">>
      [] OTHER -> Len(content.val) > 0

\* what Gemini may do with the extraction prompt
ExtractionAnswers ==
    {"api_error", "bad_json", "resume", "transcript", "untyped", "numeric_skills"}

\* json.loads(response_text) for the answers that are JSON objects
ParsedAnswer(answer) ==
    CASE answer = "resume" ->
             [name |-> Str(<<"s1">>), email |-> None, skills |-> List(<<"x", "x">>),
              experience |-> List(<<"x", "y">>), summary |-> Str(<<" ">>),
              languages |-> List(<<>>)]
      [] answer = "transcript" ->
             [education |-> Str(<<"s1">>), skills |-> List(<<"y">>)]
      [] answer = "untyped" ->
             [name |-> Str(<<"s1">>), email |-> Str(<<>>), phone |-> Number(<<"5">>),
              projects |-> Dict(<<"x">>), hobbies |-> List(<<"x">>)]
      [] answer = "numeric_skills" ->
             [name |-> Str(<<"s1">>), skills |-> Number(<<"5">>)]
      [] OTHER -> <<>>

\* gemini.extract_document_information: the parsed JSON answer, {} when the
\* call or the JSON parsing failed or len() of a truthy education,
\* experience or skills value raised (a number has no len)
GeminiExtractDocumentInformation(answer) ==
    LET parsed == ParsedAnswer(answer)
    IN  IF \E t \in {"education", "experience", "skills"} :
               /\ t \in DOMAIN parsed
               /\ parsed[t].kind = "number"
               /\ Truthy(parsed[t])
        THEN <<>>
        ELSE parsed

\* the extraction failed inside the service
GeminiExtractionFailed(answer) ==
    answer \in {"api_error", "bad_json", "numeric_skills"}

\* isinstance(content, str) and content.strip(), or a non-empty list
Storable(content) ==
    \/ content.kind = "str" /\ \E k \in DOMAIN content.val : content.val[k] # " "
    \/ content.kind = "list" /\ Len(content.val) > 0

extraction_types ==
    <<"name", "email", "phone", "education", "experience", "skills",
      "certifications", "projects", "languages", "summary">>

\* the loop "for data_type, content in extraction_types" over the remaining
\* types
RECURSIVE SaveExtractedData(_, _, _, _)
SaveExtractedData(table, document, extracted_data, types) ==
    IF types = <<>> THEN table
    ELSE LET content == DictGet(extracted_data, Head(types))
         IN  SaveExtractedData(
                 IF Storable(content)
                 THEN ExtractedInformationCreate(table, document, Head(types), content)
                 ELSE table,
                 document, extracted_data, Tail(types))

\* created_count after the loop: one increment beside each create
CreatedCount(extracted_data, types) ==
    Len(SelectSeq(types, LAMBDA t : Storable(DictGet(extracted_data, t))))

\* [t for t, c in extraction_types if c]
TruthyTypes(extracted_data, types) ==
    SelectSeq(types, LAMBDA t : Truthy(DictGet(extracted_data, t)))

\* One attempt of extract_information_task for message i; outcome is what
\* the parsing library does if the document is parsed again, answer is what
\* Gemini does.
extract_information_task(i, outcome, answer) ==
    /\ Runnable(i, "extract_information_task")
    /\ LET document_id == tasks[i].arg
           text_content == tasks[i].payload
       IN  IF document_id \notin DOMAIN documents
           THEN /\ tasks' = [tasks EXCEPT ![i] =
                                exponential_backoff_retry(tasks[i], TRUE, "", FALSE)]
                /\ UNCHANGED extracted_info
           ELSE LET parse_again == text_content = ""
                    result == IF parse_again
                              THEN ParseDocument(documents[document_id].file, outcome)
                              ELSE Result(TRUE, text_content, "")
                IN  IF ~result.success
                    THEN /\ tasks' = [tasks EXCEPT ![i] =
                                         exponential_backoff_retry(tasks[i], TRUE, "", TRUE)]
                         /\ UNCHANGED extracted_info
                    ELSE LET extracted_data == GeminiExtractDocumentInformation(answer)
                         IN  /\ extracted_info' = SaveExtractedData(
                                    extracted_info, document_id, extracted_data,
                                    extraction_types)
                             /\ tasks' = [tasks EXCEPT ![i] =
                                    [exponential_backoff_retry(
                                         tasks[i], FALSE, "success",
                                         GeminiExtractionFailed(answer))
                                     EXCEPT !.result =
                                        [returned |-> TRUE,
                                         extracted_data |-> extracted_data,
                                         extracted_records |->
                                             CreatedCount(extracted_data, extraction_types),
                                         extraction_types |->
                                             TruthyTypes(extracted_data, extraction_types)]]]
    /\ UNCHANGED <<documents, applications, questions, responses>>
    /\ UNCHANGED <<parserVars, genVars, restVars>>

\* =====================================================================
\* tracker/tasks.py: scrape_url_task, extract_questions_task
\* =====================================================================
ScrapeOutcomes == {"page", "untitled", "empty_page", "fail"}

\* scraper.scrape_url: it catches every exception and returns a dict
ScrapeUrl(outcome) ==
    CASE outcome = "page" ->
             [success |-> TRUE, content |-> "page", title |-> "Job", error |-> ""]
      [] outcome = "untitled" ->
             [success |-> TRUE, content |-> "page", title |-> "", error |-> ""]
      [] outcome = "empty_page" ->
             [success |-> TRUE, content |-> "", title |-> "", error |-> ""]
      [] OTHER ->
             [success |-> FALSE, content |-> "", title |-> "", error |-> "Request failed"]

\* One attempt of scrape_url_task for message i
scrape_url_task(i, outcome) ==
    /\ Runnable(i, "scrape_url_task")
    /\ Len(tasks) < MaxTasks
    /\ LET application_id == tasks[i].arg
       IN  IF application_id \notin DOMAIN applications
           THEN /\ tasks' = [tasks EXCEPT ![i] =
                                exponential_backoff_retry(tasks[i], TRUE, "", FALSE)]
                /\ UNCHANGED applications
           ELSE LET application == applications[application_id]
                    scrape_result == ScrapeUrl(outcome)
                IN  IF application.url = ""
                    THEN /\ tasks' = [tasks EXCEPT ![i] =
                                         exponential_backoff_retry(tasks[i], TRUE, "", FALSE)]
                         /\ UNCHANGED applications
                    ELSE IF ~scrape_result.success
                    THEN /\ tasks' = [tasks EXCEPT ![i] =
                                         exponential_backoff_retry(tasks[i], TRUE, "", TRUE)]
                         /\ UNCHANGED applications
                    ELSE /\ applications' = [applications EXCEPT ![application_id] =
                                [@ EXCEPT
                                   !.title = IF scrape_result.title # "" /\ @ = ""
                                             THEN scrape_result.title ELSE @,
                                   !.description = IF scrape_result.content # "" /\ @ = ""
                                                   THEN scrape_result.content ELSE @]]
                         /\ tasks' = Append(
                                [tasks EXCEPT ![i] =
                                    [exponential_backoff_retry(tasks[i], FALSE, "success", FALSE)
                                     EXCEPT !.result =
                                        [returned |-> TRUE,
                                         status |-> "success",
                                         application_id |-> application_id,
                                         url |-> application.url,
                                         has_questions |-> FALSE,
                                         \* not in the dict: what the scraper returned
                                         scrape_result |-> scrape_result]]],
                                Task("extract_questions_task", application_id,
                                     scrape_result.content, 2))
    /\ UNCHANGED <<documents, extracted_info, questions, responses>>
    /\ UNCHANGED <<parserVars, genVars, restVars>>

\* gemini.extract_questions_from_content: how many questions it returns,
\* none when the call or the JSON parsing failed
\* the argument scraped_content left at its default None; any other payload
\* is the raw_text of the dict scrape_url_task passes
NoScrapedContent == "None"

GeminiExtractQuestions(found) ==
    IF found = "one" THEN 1 ELSE 0

\* Question.objects.create(..., is_extracted=True, order=i) for i = 1..n
RECURSIVE CreateQuestions(_, _, _, _)
CreateQuestions(rows, application, n, k) ==
    IF k > n THEN rows
    ELSE CreateQuestions(Append(rows, Question(application, k, TRUE)),
                         application, n, k + 1)

\* One attempt of extract_questions_task for message i.  The scraped_content
\* dict scrape_url_task passes is never empty, so content is its raw_text.
extract_questions_task(i, found) ==
    /\ Runnable(i, "extract_questions_task")
    /\ LET application_id == tasks[i].arg
           scraped_content == tasks[i].payload
           content == IF scraped_content # NoScrapedContent
                      THEN scraped_content
                      ELSE IF application_id \in DOMAIN applications
                           THEN applications[application_id].description
                           ELSE ""
       IN  IF application_id \notin DOMAIN applications
           THEN /\ tasks' = [tasks EXCEPT ![i] =
                                exponential_backoff_retry(tasks[i], TRUE, "", FALSE)]
                /\ UNCHANGED questions
           ELSE IF content = ""
           THEN /\ tasks' = [tasks EXCEPT ![i] =
                                exponential_backoff_retry(tasks[i], FALSE, "skipped", FALSE)]
                /\ UNCHANGED questions
           ELSE /\ questions' = CreateQuestions(questions, application_id,
                                                GeminiExtractQuestions(found), 1)
                /\ tasks' = [tasks EXCEPT ![i] =
                                exponential_backoff_retry(tasks[i], FALSE, "success",
                                                          found \in {"api_error", "bad_json"})]
    /\ UNCHANGED <<documents, extracted_info, applications, responses>>
    /\ UNCHANGED <<parserVars, genVars, restVars>>

\* One attempt of generate_response_task for message i
generate_response_task(i, order, gemini_ok) ==
    /\ Runnable(i, "generate_response_task")
    /\ \E outcome \in {"success", "raised"} :
          /\ generate_response_body(tasks[i].arg, order, gemini_ok, outcome)
          /\ tasks' = [tasks EXCEPT ![i] =
                          exponential_backoff_retry(
                              tasks[i], outcome = "raised", "success",
                              outcome = "success" /\ ~gemini_ok)]
    /\ UNCHANGED <<documents, extracted_info, applications, questions>>
    /\ UNCHANGED <<parserVars, g_pc, g_question, restVars>>

\* =====================================================================
\* Response rows under concurrent writers: generate_response_task attempts
\* (tracker/tasks.py 313-321) and edit_response_view requests
\* (tracker/views.py 311-339), each split at its database statements
\* =====================================================================

\* (mutation of UniqueViolation: the question column is not unique)
UniqueViolation_NoConstraint(rows, question) == FALSE

\* the unique index of the OneToOneField Response.question rejects an INSERT
UniqueViolation(rows, question) ==
    \E r \in rows : r.question = question

\* the row of a question, when there is one
ResponseOf(rows, question) == CHOOSE r \in rows : r.question = question

\* Response(question=question, **defaults) before it is saved
NewResponse(rows, question, generated_text, generation_prompt, ai) ==
    [id |-> Cardinality(rows) + 1,
     question |-> question,
     generated_response |-> generated_text,
     edited_response |-> "",
     is_ai_generated |-> ai,
     generation_prompt |-> generation_prompt,
     generated_at |-> IF ai THEN NOW ELSE NULL,
     last_edited_at |-> NULL,
     version |-> 1]

\* UPDATE of the row with the instance's id: every column is written
WriteRow(rows, instance) ==
    {IF r.id = instance.id THEN instance ELSE r : r \in rows}

\* the defaults of update_or_create set on a fetched instance, then save()
ApplyDefaults(instance, generated_text, generation_prompt, saved_fields) ==
    UpdateWithDefaults(instance, generated_text, generation_prompt, saved_fields)

InFlight(kind, question, method, text, prompt) ==
    [kind |-> kind, question |-> question, method |-> method,
     text |-> text, prompt |-> prompt,
     pc |-> "get", conflict |-> FALSE, created |-> FALSE, instance |-> NoReturn]

\* a worker starts an attempt of generate_response_task (sent by the
\* regeneration view, by the batch task or by a retry) and has the text from
\* Gemini, '' when the generation failed
BeginGenerate(question, gemini_ok) ==
    /\ Len(inflight) < MaxRequests
    /\ question \in DOMAIN questions
    /\ LET generation_result == GeminiGenerateResponse(gemini_ok)
       IN  inflight' = Append(inflight,
               InFlight("generate", question, "",
                        generation_result.response, generation_result.prompt))
    /\ UNCHANGED <<dbVars, parserVars, genVars, tasks, notifVars>>

\* the owner requests edit_response_view; a POST carries the edited text
BeginEdit(question, method, text) ==
    /\ Len(inflight) < MaxRequests
    /\ question \in DOMAIN questions
    /\ inflight' = Append(inflight, InFlight("edit", question, method, text, ""))
    /\ UNCHANGED <<dbVars, parserVars, genVars, tasks, notifVars>>

\* get_or_create, first statement: SELECT by question.  update_or_create
\* selects for update, so a row found is updated before any other writer
GetResponse(k) ==
    /\ k \in DOMAIN inflight
    /\ inflight[k].pc = "get"
    /\ LET f == inflight[k]
           found == \E r \in responses : r.question = f.question
           row == ResponseOf(responses, f.question)
       IN  IF ~found
           THEN /\ inflight' = [inflight EXCEPT ![k].pc = "create"]
                /\ UNCHANGED responses
           ELSE IF f.kind = "generate"
           THEN /\ \E saved_fields \in SavedFields :
                      responses' = WriteRow(responses,
                          ApplyDefaults(row, f.text, f.prompt, saved_fields))
                /\ inflight' = [inflight EXCEPT ![k].pc = "done"]
           ELSE /\ inflight' = [inflight EXCEPT
                                   ![k].pc = IF f.method = "POST" THEN "form" ELSE "done",
                                   ![k].instance = row]
                /\ UNCHANGED responses
    /\ UNCHANGED <<documents, extracted_info, applications, questions>>
    /\ UNCHANGED <<parserVars, genVars, tasks, notifVars>>

\* get_or_create, second statement: INSERT; on IntegrityError the row is
\* fetched instead
CreateResponse(k) ==
    /\ k \in DOMAIN inflight
    /\ inflight[k].pc = "create"
    /\ LET f == inflight[k]
           row == ResponseOf(responses, f.question)
           fresh == IF f.kind = "generate"
                    THEN NewResponse(responses, f.question, f.text, f.prompt, TRUE)
                    ELSE NewResponse(responses, f.question, "", "", FALSE)
           next_pc == IF f.kind = "edit" /\ f.method = "POST" THEN "form" ELSE "done"
       IN  IF UniqueViolation(responses, f.question)
           THEN /\ \E saved_fields \in SavedFields :
                      responses' = IF f.kind = "generate"
                                   THEN WriteRow(responses,
                                            ApplyDefaults(row, f.text, f.prompt,
                                                          saved_fields))
                                   ELSE responses
                /\ inflight' = [inflight EXCEPT ![k].pc = next_pc,
                                                ![k].conflict = TRUE,
                                                ![k].instance = row]
           ELSE /\ responses' = responses \cup {fresh}
                /\ inflight' = [inflight EXCEPT ![k].pc = next_pc,
                                                ![k].created = TRUE,
                                                ![k].instance = fresh]
    /\ UNCHANGED <<documents, extracted_info, applications, questions>>
    /\ UNCHANGED <<parserVars, genVars, tasks, notifVars>>

\* form.save() of a valid ResponseForm: edited_response is set on the
\* instance fetched earlier and the whole instance is saved
SaveResponseForm(k) ==
    /\ k \in DOMAIN inflight
    /\ inflight[k].pc = "form"
    /\ LET f == inflight[k]
       IN  responses' = WriteRow(responses,
               ResponseSave([f.instance EXCEPT !.edited_response = f.text], TRUE))
    /\ inflight' = [inflight EXCEPT ![k].pc = "done"]
    /\ UNCHANGED <<documents, extracted_info, applications, questions>>
    /\ UNCHANGED <<parserVars, genVars, tasks, notifVars>>

\* ---------------------------------------------------------------------
\* SpecResponses: the writers of the Response table, interleaved
\* ---------------------------------------------------------------------
InitResponses ==
    /\ ParserIdle
    /\ documents = <<>>
    /\ extracted_info = <<>>
    /\ applications = <<Application(1, "url", "title")>>
    /\ questions = <<Question(1, 1, TRUE), Question(1, 2, TRUE)>>
    /\ responses = {}
    /\ g_pc = "idle"
    /\ g_question = 0
    /\ user_info = <<>>
    /\ tasks = <<>>
    /\ inflight = <<>>
    /\ NotifIdle

NextResponses ==
    \/ \E q \in DOMAIN questions, ok \in BOOLEAN : BeginGenerate(q, ok)
    \/ \E q \in DOMAIN questions, m \in {"GET", "POST"}, t \in {"", "mine"} :
          BeginEdit(q, m, t)
    \/ \E k \in DOMAIN inflight : GetResponse(k)
    \/ \E k \in DOMAIN inflight : CreateResponse(k)
    \/ \E k \in DOMAIN inflight : SaveResponseForm(k)

SpecResponses == InitResponses /\ [][NextResponses]_vars

\* =====================================================================
\* tracker/views.py generate_responses_view, tracker/tasks.py
\* batch_generate_responses_task
\* =====================================================================

\* the value of the regenerate argument as the message carries it
RegenerateArg(regenerate) == IF regenerate THEN "regenerate=True" ELSE "regenerate=False"

\* POST to generate_responses_view for one's own application, with or
\* without the regenerate flag
generate_responses_view(user, application_pk, regenerate) ==
    /\ application_pk \in DOMAIN applications
    /\ applications[application_pk].user = user
    /\ Len(tasks) < MaxTasks
    /\ IF \E d \in DOMAIN documents :
             documents[d].user = user /\ documents[d].is_processed
       THEN tasks' = Append(tasks, Task("batch_generate_responses_task", application_pk,
                                        RegenerateArg(regenerate), 0))
       ELSE UNCHANGED tasks
    /\ UNCHANGED dbVars
    /\ UNCHANGED <<parserVars, genVars, restVars>>

\* application.questions.all(): the ids, in Meta.ordering (order, then age)
RECURSIVE QuestionIds(_)
QuestionIds(ids) ==
    IF ids = {} THEN <<>>
    ELSE LET q == CHOOSE a \in ids : \A b \in ids :
                     \/ questions[a].order < questions[b].order
                     \/ questions[a].order = questions[b].order /\ a <= b
         IN  <<q>> \o QuestionIds(ids \ {q})

ApplicationQuestions(application_id) ==
    {q \in DOMAIN questions : questions[q].application = application_id}

\* (mutation of QuestionsToProcess: questions with a response are kept)
QuestionsToProcess_KeepAnswered(application_id, regenerate) ==
    QuestionIds(ApplicationQuestions(application_id))

\* questions_to_process (tracker/tasks.py 382-389)
QuestionsToProcess(application_id, regenerate) ==
    IF regenerate
    THEN QuestionIds(ApplicationQuestions(application_id))
    ELSE QuestionIds({q \in ApplicationQuestions(application_id) :
                         ~\E r \in responses : r.question = q})

\* group(generate_response_task.si(q_id) for q_id in ...).apply_async()
RECURSIVE GroupApplyAsync(_, _)
GroupApplyAsync(queue, question_ids) ==
    IF question_ids = <<>> THEN queue
    ELSE GroupApplyAsync(Append(queue, Task("generate_response_task",
                                            Head(question_ids), "", 0)),
                         Tail(question_ids))

\* The run of batch_generate_responses_task for message i.  The task has
\* no retry decorator: an exception ends it in failure.
batch_generate_responses_task(i) ==
    /\ Runnable(i, "batch_generate_responses_task")
    /\ Len(tasks) + Len(questions) <= MaxTasks
    /\ LET application_id == tasks[i].arg
           regenerate == tasks[i].payload = RegenerateArg(TRUE)
           ran == [tasks[i] EXCEPT !.executions = @ + 1]
           questions_to_process == QuestionsToProcess(application_id, regenerate)
       IN  IF application_id \notin DOMAIN applications
           THEN tasks' = [tasks EXCEPT ![i] =
                            [ran EXCEPT !.state = "failure", !.status = "raised"]]
           ELSE IF ApplicationQuestions(application_id) = {}
           THEN tasks' = [tasks EXCEPT ![i] =
                            [ran EXCEPT !.state = "success", !.status = "skipped",
                                        !.result = [returned |-> TRUE,
                                                    status |-> "skipped",
                                                    application_id |-> application_id,
                                                    message |-> "No questions found"]]]
           ELSE IF questions_to_process = <<>>
           THEN tasks' = [tasks EXCEPT ![i] =
                            [ran EXCEPT !.state = "success", !.status = "skipped",
                                        !.result = [returned |-> TRUE,
                                                    status |-> "skipped",
                                                    application_id |-> application_id,
                                                    message |-> "All questions already have responses"]]]
           ELSE tasks' = GroupApplyAsync(
                    [tasks EXCEPT ![i] =
                        [ran EXCEPT !.state = "success", !.status = "success",
                                    !.result = [returned |-> TRUE,
                                                status |-> "success",
                                                application_id |-> application_id,
                                                total_questions |->
                                                    Cardinality(ApplicationQuestions(application_id)),
                                                questions_to_process |->
                                                    Len(questions_to_process)]]],
                    questions_to_process)
    /\ UNCHANGED dbVars
    /\ UNCHANGED <<parserVars, genVars, restVars>>

\* ---------------------------------------------------------------------
\* SpecBatch: a user with a processed document and two applications asks
\* for responses; the batch task and the generations it sends run
\* ---------------------------------------------------------------------
\* the question tables of up to n rows over the applications
QuestionTables(n) ==
    UNION {[1..k -> {Question(a, o, e) : a \in {1, 2}, o \in {1, 2}, e \in {TRUE}}] :
              k \in 0..n}

InitBatch ==
    /\ ParserIdle
    /\ documents = <<[Document(1, <<"cv", ".", "pdf">>)
                        EXCEPT !.is_processed = TRUE, !.processed_at = NOW]>>
    /\ extracted_info = <<>>
    /\ applications = <<Application(1, "url", "title"), Application(1, "url", "title")>>
    /\ questions \in QuestionTables(MaxRows + 1)
    /\ \E answered \in SUBSET (DOMAIN questions) :
          responses = {[NewResponse({}, q, "answer", "prompt", TRUE) EXCEPT !.id = q] :
                          q \in answered}
    /\ g_pc = "idle"
    /\ g_question = 0
    /\ user_info = <<>>
    /\ tasks = <<>>
    /\ RestIdle

NextBatch ==
    \/ \E u \in Requesters, a \in DOMAIN applications, r \in BOOLEAN :
          generate_responses_view(u, a, r)
    \/ \E i \in DOMAIN tasks : batch_generate_responses_task(i)
    \/ \E i \in DOMAIN tasks, o \in HashOrders, ok \in BOOLEAN :
          generate_response_task(i, o, ok)

SpecBatch == InitBatch /\ [][NextBatch]_vars

\* =====================================================================
\* Ownership: tracker/views.py add_question_view, tracker/api_views.py
\* ApplicationViewSet and QuestionViewSet with QuestionSerializer
\* =====================================================================

\* POST of a valid QuestionForm to add_question_view; an application of
\* another user is answered 404
add_question_view(user, application_pk, order) ==
    /\ application_pk \in DOMAIN applications
    /\ applications[application_pk].user = user
    /\ Len(questions) < MaxRows + 2
    /\ questions' = Append(questions, Question(application_pk, order, FALSE))
    /\ UNCHANGED <<documents, extracted_info, applications, responses>>
    /\ UNCHANGED <<parserVars, genVars, tasks, restVars>>

\* PATCH /api/applications/<pk>/ with a title; get_queryset holds the user's
\* applications only
ApplicationViewSet_partial_update(user, pk, title) ==
    /\ pk \in DOMAIN applications
    /\ applications[pk].user = user
    /\ applications' = [applications EXCEPT ![pk].title = title]
    /\ UNCHANGED <<documents, extracted_info, questions, responses>>
    /\ UNCHANGED <<parserVars, genVars, tasks, restVars>>

\* POST /api/questions/: QuestionSerializer takes the application as a
\* primary key among all applications and the view saves what it validated
QuestionViewSet_create(user, application, order) ==
    /\ application \in DOMAIN applications
    /\ Len(questions) < MaxRows + 2
    /\ questions' = Append(questions, Question(application, order, FALSE))
    /\ UNCHANGED <<documents, extracted_info, applications, responses>>
    /\ UNCHANGED <<parserVars, genVars, tasks, restVars>>

\* PATCH /api/questions/<pk>/ with an application: get_queryset holds the
\* questions of the user's applications only, the new application is again
\* any primary key
QuestionViewSet_partial_update(user, pk, application) ==
    /\ pk \in DOMAIN questions
    /\ applications[questions[pk].application].user = user
    /\ application \in DOMAIN applications
    /\ questions' = [questions EXCEPT ![pk].application = application]
    /\ UNCHANGED <<documents, extracted_info, applications, responses>>
    /\ UNCHANGED <<parserVars, genVars, tasks, restVars>>

\* ---------------------------------------------------------------------
\* SpecOwnership: two users, one application each, and their requests
\* ---------------------------------------------------------------------
InitOwnership ==
    /\ ParserIdle
    /\ documents = <<>>
    /\ extracted_info = <<>>
    /\ applications = <<Application(1, "url", "title"), Application(2, "url", "title")>>
    /\ questions = <<>>
    /\ responses = {}
    /\ g_pc = "idle"
    /\ g_question = 0
    /\ user_info = <<>>
    /\ tasks = <<>>
    /\ RestIdle

NextOwnership ==
    \/ \E u \in Users, a \in DOMAIN applications, o \in {1, 2} :
          add_question_view(u, a, o)
    \/ \E u \in Users, a \in DOMAIN applications, t \in {"title", "renamed"} :
          ApplicationViewSet_partial_update(u, a, t)
    \/ \E u \in Users, a \in DOMAIN applications, o \in {1, 2} :
          QuestionViewSet_create(u, a, o)
    \/ \E u \in Users, q \in DOMAIN questions, a \in DOMAIN applications :
          QuestionViewSet_partial_update(u, q, a)

SpecOwnership == InitOwnership /\ [][NextOwnership]_vars

\* =====================================================================
\* notifications: models.py, views.py, api_views.py, tasks.py
\* =====================================================================

\* a nullable DateTimeField: no value, or a time in days
NoTime == <<>>
At(t) == <<t>>

\* a Notification row as Notification.objects.create leaves it
Notification(id, user) ==
    [id |-> id, user |-> user, is_read |-> FALSE, read_at |-> NoTime]

\* Notification.mark_as_read()
mark_as_read(n) ==
    IF ~n.is_read THEN [n EXCEPT !.is_read = TRUE, !.read_at = At(now)] ELSE n

\* notification_mark_read_view: the user's own notification, POST only
notification_mark_read_view(user, pk, method) ==
    /\ \E n \in notifications :
          /\ n.id = pk
          /\ n.user = user
          /\ IF method = "POST"
             THEN notifications' = (notifications \ {n}) \cup {mark_as_read(n)}
             ELSE UNCHANGED notifications
    /\ UNCHANGED <<reminders, now, deadlines, due_runs, inflight, status_history>>
    /\ UNCHANGED <<parserVars, dbVars, genVars, tasks>>

\* notification_mark_all_read_view: every unread notification of the user
notification_mark_all_read_view(user, method) ==
    /\ IF method = "POST"
       THEN notifications' =
               {IF n.user = user /\ ~n.is_read THEN mark_as_read(n) ELSE n :
                   n \in notifications}
       ELSE UNCHANGED notifications
    /\ UNCHANGED <<reminders, now, deadlines, due_runs, inflight, status_history>>
    /\ UNCHANGED <<parserVars, dbVars, genVars, tasks>>

\* POST /api/notifications/<pk>/mark_read/: is_read is set, read_at is not
NotificationViewSet_mark_read(user, pk) ==
    /\ \E n \in notifications :
          /\ n.id = pk
          /\ n.user = user
          /\ notifications' = (notifications \ {n}) \cup {[n EXCEPT !.is_read = TRUE]}
    /\ UNCHANGED <<reminders, now, deadlines, due_runs, inflight, status_history>>
    /\ UNCHANGED <<parserVars, dbVars, genVars, tasks>>

\* POST /api/notifications/mark_all_read/: queryset.update(is_read=True)
NotificationViewSet_mark_all_read(user) ==
    /\ notifications' =
          {IF n.user = user THEN [n EXCEPT !.is_read = TRUE] ELSE n :
              n \in notifications}
    /\ UNCHANGED <<reminders, now, deadlines, due_runs, inflight, status_history>>
    /\ UNCHANGED <<parserVars, dbVars, genVars, tasks>>

\* PATCH /api/notifications/<pk>/ with is_read, a writable serializer field
NotificationViewSet_partial_update(user, pk, is_read) ==
    /\ \E n \in notifications :
          /\ n.id = pk
          /\ n.user = user
          /\ notifications' = (notifications \ {n}) \cup {[n EXCEPT !.is_read = is_read]}
    /\ UNCHANGED <<reminders, now, deadlines, due_runs, inflight, status_history>>
    /\ UNCHANGED <<parserVars, dbVars, genVars, tasks>>

\* a day passes
Tick ==
    /\ now < MaxClock
    /\ now' = now + 1
    /\ UNCHANGED <<notifications, reminders, deadlines, due_runs, inflight, status_history>>
    /\ UNCHANGED <<parserVars, dbVars, genVars, tasks>>

\* (mutation of OldNotifications: the filter on is_read is dropped)
OldNotifications_AnyReadState(days) ==
    {n \in notifications : n.read_at # NoTime /\ n.read_at[1] < now - days}

\* Notification.objects.filter(is_read=True, read_at__lt=cutoff_date); a null
\* read_at is less than nothing
OldNotifications(days) ==
    {n \in notifications :
        /\ n.is_read
        /\ n.read_at # NoTime
        /\ n.read_at[1] < now - days}

\* cleanup_old_notifications_task(days)
cleanup_old_notifications_task(days) ==
    /\ notifications' = notifications \ OldNotifications(days)
    /\ UNCHANGED <<reminders, now, deadlines, due_runs, inflight, status_history>>
    /\ UNCHANGED <<parserVars, dbVars, genVars, tasks>>

\* the days the task is run with: the default is 30
CleanupDays == {-1, 0, 1, 2}

\* ---------------------------------------------------------------------
\* SpecCleanup: notifications of two users, read and cleaned up
\* ---------------------------------------------------------------------
\* the tables of n unread notifications
NotificationTables(n) ==
    {{Notification(i, owner[i]) : i \in 1..n} : owner \in [1..n -> Users]}

InitCleanup ==
    /\ ParserIdle
    /\ documents = <<>>
    /\ extracted_info = <<>>
    /\ applications = <<>>
    /\ questions = <<>>
    /\ responses = {}
    /\ g_pc = "idle"
    /\ g_question = 0
    /\ user_info = <<>>
    /\ tasks = <<>>
    /\ inflight = <<>>
    /\ notifications \in NotificationTables(MaxRows + 1)
    /\ reminders = {}
    /\ now = 0
    /\ deadlines = <<>>
    /\ due_runs = <<>>
    /\ status_history = <<>>

NextCleanup ==
    \/ Tick
    \/ \E u \in Users, pk \in 1..(MaxRows + 1), m \in {"GET", "POST"} :
          notification_mark_read_view(u, pk, m)
    \/ \E u \in Users, m \in {"GET", "POST"} : notification_mark_all_read_view(u, m)
    \/ \E u \in Users, pk \in 1..(MaxRows + 1) : NotificationViewSet_mark_read(u, pk)
    \/ \E u \in Users : NotificationViewSet_mark_all_read(u)
    \/ \E u \in Users, pk \in 1..(MaxRows + 1), r \in BOOLEAN :
          NotificationViewSet_partial_update(u, pk, r)
    \/ \E d \in CleanupDays : cleanup_old_notifications_task(d)

SpecCleanup == InitCleanup /\ [][NextCleanup]_vars

\* ---------------------------------------------------------------------
\* Reminders: notifications/tasks.py create_deadline_reminders_task,
\* tracker/tasks.py check_application_deadlines_task
\* ---------------------------------------------------------------------

\* a Reminder row as Reminder.objects.create / ReminderForm.save leaves it
Reminder(id, user, application, reminder_type, scheduled_for) ==
    [id |-> id, user |-> user, application |-> application,
     reminder_type |-> reminder_type, scheduled_for |-> scheduled_for,
     is_sent |-> FALSE, sent_at |-> NoTime]

\* the argument custom_intervals: None, or a list of days
NoIntervals == [none |-> TRUE, list |-> <<>>]
IntervalList(list) == [none |-> FALSE, list |-> list]

\* intervals = custom_intervals or [7, 3, 1]: None and [] are both falsy
Intervals(custom_intervals) ==
    IF custom_intervals.none \/ custom_intervals.list = <<>>
    THEN <<7, 3, 1>>
    ELSE custom_intervals.list

\* POST of a valid ReminderForm to reminder_create_view: an application of
\* the user, a time that is not in the past; this is a reminder the user
\* writes for themselves, of type custom
reminder_create_view(user, application, scheduled_for) ==
    /\ application \in DOMAIN applications
    /\ applications[application].user = user
    /\ ~(scheduled_for < now)
    /\ Cardinality({r \in reminders : r.reminder_type = "custom"}) < MaxRows
    /\ reminders' = reminders \cup
          {Reminder(Cardinality(reminders) + 1, user, application, "custom",
                    scheduled_for)}
    /\ UNCHANGED <<notifications, now, deadlines, due_runs, inflight, status_history>>
    /\ UNCHANGED <<parserVars, dbVars, genVars, tasks>>

\* create_deadline_reminders_task.delay(application_id, custom_intervals)
create_deadline_reminders_delay(application_id, custom_intervals) ==
    /\ Len(tasks) < MaxRuns
    /\ tasks' = Append(tasks, Task("create_deadline_reminders_task",
                                   application_id, custom_intervals, 0))
    /\ UNCHANGED <<parserVars, dbVars, genVars, restVars>>

\* Application.objects.filter(deadline__isnull=False, deadline__gt=now,
\* deadline__lte=now + 7 days, status__in=[draft, in_review]); the
\* applications here are drafts
ApplicationsWithDeadlines ==
    {a \in DOMAIN applications :
        /\ deadlines[a] # NoTime
        /\ deadlines[a][1] > now
        /\ deadlines[a][1] <= now + 7}

\* for app in applications_with_deadlines, in the order of Meta.ordering
\* (-created_at): create_deadline_reminders_task.delay(app.id)
RECURSIVE DelayReminders(_, _)
DelayReminders(queue, apps) ==
    IF apps = {} THEN queue
    ELSE LET a == CHOOSE x \in apps : \A y \in apps : y <= x
         IN  DelayReminders(Append(queue, Task("create_deadline_reminders_task",
                                               a, NoIntervals, 0)),
                            apps \ {a})

\* check_application_deadlines_task, run by the scheduler
check_application_deadlines_task ==
    /\ Len(tasks) + Cardinality(ApplicationsWithDeadlines) <= MaxRuns
    /\ tasks' = DelayReminders(tasks, ApplicationsWithDeadlines)
    /\ UNCHANGED <<parserVars, dbVars, genVars, restVars>>

\* (mutation of ReminderExists: the lookup finds nothing)
ReminderExists_Unchecked(rows, application, reminder_time) == FALSE

\* Reminder.objects.filter(application=application, reminder_type='deadline',
\*                         scheduled_for=reminder_time).exists()
ReminderExists(rows, application, reminder_time) ==
    \E r \in rows :
       /\ r.application = application
       /\ r.reminder_type = "deadline"
       /\ r.scheduled_for = reminder_time

\* the loop over the intervals: the Reminder table after it
RECURSIVE CreateReminders(_, _, _, _)
CreateReminders(rows, application, deadline, intervals) ==
    IF intervals = <<>> THEN rows
    ELSE LET days_before == Head(intervals)
             reminder_time == deadline - days_before
             created ==
                IF reminder_time > now
                   /\ ~ReminderExists(rows, application, reminder_time)
                THEN rows \cup {Reminder(Cardinality(rows) + 1,
                                         applications[application].user,
                                         application, "deadline", reminder_time)}
                ELSE rows
         IN  CreateReminders(created, application, deadline, Tail(intervals))

\* The run of create_deadline_reminders_task for message i.  The task has
\* no retry decorator: an exception ends it in failure.
create_deadline_reminders_task(i) ==
    /\ Runnable(i, "create_deadline_reminders_task")
    /\ LET application_id == tasks[i].arg
           ran == [tasks[i] EXCEPT !.executions = @ + 1]
       IN  IF application_id \notin DOMAIN applications
           THEN /\ tasks' = [tasks EXCEPT ![i] =
                               [ran EXCEPT !.state = "failure", !.status = "raised"]]
                /\ UNCHANGED reminders
           ELSE IF deadlines[application_id] = NoTime
           THEN /\ tasks' = [tasks EXCEPT ![i] =
                               [ran EXCEPT !.state = "success", !.status = "skipped",
                                           !.result = [returned |-> TRUE,
                                                       status |-> "skipped",
                                                       application_id |-> application_id,
                                                       message |-> "No deadline set for application"]]]
                /\ UNCHANGED reminders
           ELSE LET deadline == deadlines[application_id][1]
                    rows == CreateReminders(reminders, application_id, deadline,
                                            Intervals(tasks[i].payload))
                IN  /\ reminders' = rows
                    /\ tasks' = [tasks EXCEPT ![i] =
                                   [ran EXCEPT !.state = "success", !.status = "success",
                                               !.result = [returned |-> TRUE,
                                                           status |-> "success",
                                                           application_id |-> application_id,
                                                           deadline |-> deadline,
                                                           reminders_created |->
                                                               Cardinality(rows)
                                                               - Cardinality(reminders)]]]
    /\ UNCHANGED <<notifications, now, deadlines, due_runs, inflight, status_history>>
    /\ UNCHANGED <<parserVars, dbVars, genVars>>

\* ---------------------------------------------------------------------
\* SpecReminders: an application with a deadline and one without, the
\* periodic check, runs asked for with custom intervals, the clock
\* ---------------------------------------------------------------------
DeadlineChoices == {At(4), At(9)}

CustomIntervals == {IntervalList(<<2, 1>>), IntervalList(<<>>)}

InitReminders ==
    /\ ParserIdle
    /\ documents = <<>>
    /\ extracted_info = <<>>
    /\ applications = <<Application(1, "url", "title"), Application(2, "url", "title")>>
    /\ questions = <<>>
    /\ responses = {}
    /\ g_pc = "idle"
    /\ g_question = 0
    /\ user_info = <<>>
    /\ tasks = <<>>
    /\ inflight = <<>>
    /\ notifications = {}
    /\ reminders = {}
    /\ now = 0
    /\ \E d \in DeadlineChoices : deadlines = <<d, NoTime>>
    /\ due_runs = <<>>
    /\ status_history = <<>>

NextReminders ==
    \/ Tick
    \/ \E u \in Requesters, a \in DOMAIN applications, t \in 1..MaxClock :
          reminder_create_view(u, a, t)
    \/ \E a \in DOMAIN applications, c \in CustomIntervals :
          create_deadline_reminders_delay(a, c)
    \/ check_application_deadlines_task
    \/ \E i \in DOMAIN tasks : create_deadline_reminders_task(i)

SpecReminders == InitReminders /\ [][NextReminders]_vars

\* ---------------------------------------------------------------------
\* tracker/tasks.py scrape_and_extract_workflow_task and Celery's chain
\* ---------------------------------------------------------------------
\* task.si(...): an immutable signature
Signature(name, arg, payload) == [name |-> name, arg |-> arg, payload |-> payload]

\* chain(...).apply_async(): the first signature is sent, carrying the rest
ChainApplyAsync(queue, signatures) ==
    Append(queue, [Task(signatures[1].name, signatures[1].arg,
                        signatures[1].payload, 0)
                     EXCEPT !.chain = Tail(signatures)])

\* scrape_and_extract_workflow_task(application_id); no retry decorator
scrape_and_extract_workflow_task(application_id) ==
    /\ tasks = <<>>
    /\ tasks' = ChainApplyAsync(tasks,
          <<Signature("scrape_url_task", application_id, ""),
            Signature("extract_questions_task", application_id, NoScrapedContent),
            Signature("batch_generate_responses_task", application_id,
                      RegenerateArg(FALSE))>>)
    /\ UNCHANGED <<parserVars, dbVars, genVars, restVars>>

\* Celery, when a task of a chain has returned: the next signature is sent
ChainNext(i) ==
    /\ i \in DOMAIN tasks
    /\ tasks[i].state = "success"
    /\ tasks[i].chain # <<>>
    /\ Len(tasks) < MaxTasks
    /\ tasks' = ChainApplyAsync([tasks EXCEPT ![i].chain = <<>>], tasks[i].chain)
    /\ UNCHANGED <<parserVars, dbVars, genVars, restVars>>

\* ---------------------------------------------------------------------
\* SpecWorkflow: one execution of the workflow for an application made by
\* the quick-create view, and the scraping and extraction runs that follow
\* (the batch generation the chain ends with is sent, its run changes no
\* question)
\* ---------------------------------------------------------------------
InitWorkflow ==
    /\ ParserIdle
    /\ documents = <<>>
    /\ extracted_info = <<>>
    /\ applications = <<Application(1, "url", "Processing...")>>
    /\ questions = <<>>
    /\ responses = {}
    /\ g_pc = "idle"
    /\ g_question = 0
    /\ user_info = <<>>
    /\ tasks = <<>>
    /\ RestIdle

NextWorkflow ==
    \/ \E a \in DOMAIN applications : scrape_and_extract_workflow_task(a)
    \/ \E i \in DOMAIN tasks, o \in ScrapeOutcomes : scrape_url_task(i, o)
    \/ \E i \in DOMAIN tasks, f \in {"one", "none", "api_error", "bad_json"} :
          extract_questions_task(i, f)
    \/ \E i \in DOMAIN tasks : ChainNext(i)

SpecWorkflow == InitWorkflow /\ [][NextWorkflow]_vars

\* ---------------------------------------------------------------------
\* Due reminders: notifications/tasks.py check_due_reminders_task,
\* notifications/admin.py
\* ---------------------------------------------------------------------

\* (mutation of PendingReminders: sent reminders are selected too)
PendingReminders_SentToo(rows) ==
    {r \in rows : r.scheduled_for <= now}

\* Reminder.objects.pending(): filter(is_sent=False, scheduled_for__lte=now)
PendingReminders(rows) ==
    {r \in rows : ~r.is_sent /\ r.scheduled_for <= now}

\* the ids of a queryset's rows in Meta.ordering: scheduled_for (then id)
RECURSIVE OrderedIds(_)
OrderedIds(rows) ==
    IF rows = {} THEN <<>>
    ELSE LET first == CHOOSE r \in rows :
                         \A o \in rows :
                            \/ r.scheduled_for < o.scheduled_for
                            \/ r.scheduled_for = o.scheduled_for /\ r.id <= o.id
         IN  <<first.id>> \o OrderedIds(rows \ {first})

\* an execution of check_due_reminders_task that has not started its body
DueRun ==
    [pc |-> "count", total_due |-> 0, due |-> <<>>, fetched |-> 0,
     sent_count |-> 0, failed_count |-> 0, executions |-> 1,
     result |-> NoReturn]

\* reminder_count = due_reminders.count()
CountDueReminders(k) ==
    /\ k \in DOMAIN due_runs
    /\ due_runs[k].pc = "count"
    /\ due_runs' = [due_runs EXCEPT
                       ![k].pc = "fetch",
                       ![k].total_due = Cardinality(PendingReminders(reminders))]
    /\ UNCHANGED <<notifications, reminders, now, deadlines, inflight, status_history>>
    /\ UNCHANGED <<parserVars, dbVars, genVars, tasks>>

\* "for reminder in due_reminders": the queryset is evaluated, a second query
FetchDueReminders(k) ==
    /\ k \in DOMAIN due_runs
    /\ due_runs[k].pc = "fetch"
    /\ LET ids == OrderedIds(PendingReminders(reminders))
       IN  due_runs' = [due_runs EXCEPT ![k].pc = "loop",
                                        ![k].due = ids,
                                        ![k].fetched = Len(ids)]
    /\ UNCHANGED <<notifications, reminders, now, deadlines, inflight, status_history>>
    /\ UNCHANGED <<parserVars, dbVars, genVars, tasks>>

\* the Notification made for a reminder; message is the reminder's message,
\* which names the reminder
ReminderNotification(id, reminder) ==
    [id |-> id, user |-> reminder.user, is_read |-> FALSE, read_at |-> NoTime,
     message |-> reminder.id]

\* Reminder.mark_as_sent(): save(update_fields=['is_sent', 'sent_at'])
mark_as_sent(rows, id) ==
    {IF r.id = id THEN [r EXCEPT !.is_sent = TRUE, !.sent_at = At(now)] ELSE r :
        r \in rows}

LoopOutcomes == {"sent", "create_raises", "delay_raises"}

\* one iteration of the loop for the next fetched reminder: the
\* notification is created, the email task is sent, the reminder is marked;
\* an exception at any of them is caught and counted
ProcessDueReminder(k, outcome) ==
    /\ k \in DOMAIN due_runs
    /\ due_runs[k].pc = "loop"
    /\ due_runs[k].due # <<>>
    /\ outcome # "create_raises" => Cardinality(notifications) < MaxTasks
    /\ LET id == Head(due_runs[k].due)
           reminder == CHOOSE r \in reminders : r.id = id
           notification == ReminderNotification(Cardinality(notifications) + 1,
                                                reminder)
       IN  /\ notifications' = IF outcome = "create_raises"
                               THEN notifications
                               ELSE notifications \cup {notification}
           /\ tasks' = IF outcome = "sent"
                       THEN Append(tasks, Task("send_notification_email_task",
                                               notification.id, "", 0))
                       ELSE tasks
           /\ reminders' = IF outcome = "sent"
                           THEN mark_as_sent(reminders, id)
                           ELSE reminders
           /\ due_runs' = [due_runs EXCEPT
                  ![k].due = Tail(@),
                  ![k].sent_count = IF outcome = "sent" THEN @ + 1 ELSE @,
                  ![k].failed_count = IF outcome = "sent" THEN @ ELSE @ + 1]
    /\ UNCHANGED <<now, deadlines, inflight, status_history>>
    /\ UNCHANGED <<parserVars, dbVars, genVars>>

\* the loop is over: the result dict is returned
FinishCheckDueReminders(k) ==
    /\ k \in DOMAIN due_runs
    /\ due_runs[k].pc = "loop"
    /\ due_runs[k].due = <<>>
    /\ due_runs' = [due_runs EXCEPT
                       ![k].pc = "done",
                       ![k].result = [returned |-> TRUE,
                                      status |-> "success",
                                      total_due |-> due_runs[k].total_due,
                                      sent |-> due_runs[k].sent_count,
                                      failed |-> due_runs[k].failed_count]]
    /\ UNCHANGED <<notifications, reminders, now, deadlines, inflight, status_history>>
    /\ UNCHANGED <<parserVars, dbVars, genVars, tasks>>

LostAt == {"before_create", "after_create", "after_delay"}

\* CELERY_TASK_ACKS_LATE with CELERY_TASK_REJECT_ON_WORKER_LOST: the worker
\* dies inside an iteration of the loop, before mark_as_sent; what the
\* iteration had already written stays, the message goes back to the queue
\* and the body starts again
WorkerLost(k, lost_at) ==
    /\ k \in DOMAIN due_runs
    /\ due_runs[k].pc = "loop"
    /\ due_runs[k].due # <<>>
    /\ due_runs[k].executions < 2
    /\ lost_at # "before_create" => Cardinality(notifications) < MaxTasks
    /\ LET id == Head(due_runs[k].due)
           reminder == CHOOSE r \in reminders : r.id = id
           notification == ReminderNotification(Cardinality(notifications) + 1,
                                                reminder)
       IN  /\ notifications' = IF lost_at = "before_create"
                               THEN notifications
                               ELSE notifications \cup {notification}
           /\ tasks' = IF lost_at = "after_delay"
                       THEN Append(tasks, Task("send_notification_email_task",
                                               notification.id, "", 0))
                       ELSE tasks
    /\ due_runs' = [due_runs EXCEPT
                       ![k] = [DueRun EXCEPT !.executions = due_runs[k].executions + 1]]
    /\ UNCHANGED <<reminders, now, deadlines, inflight, status_history>>
    /\ UNCHANGED <<parserVars, dbVars, genVars>>

\* ReminderAdmin.mark_as_pending on a selection:
\* queryset.update(is_sent=False, sent_at=None)
ReminderAdmin_mark_as_pending(ids) ==
    /\ reminders' = {IF r.id \in ids
                     THEN [r EXCEPT !.is_sent = FALSE, !.sent_at = NoTime]
                     ELSE r : r \in reminders}
    /\ UNCHANGED <<notifications, now, deadlines, due_runs, inflight, status_history>>
    /\ UNCHANGED <<parserVars, dbVars, genVars, tasks>>

\* ---------------------------------------------------------------------
\* SpecDue: two due reminders and one that is not yet due; the scheduler has
\* sent check_due_reminders_task twice and two workers have taken the
\* messages, so the executions may overlap, and each may be run again after
\* a worker loss; the admin action
\* ---------------------------------------------------------------------
InitDue ==
    /\ ParserIdle
    /\ documents = <<>>
    /\ extracted_info = <<>>
    /\ applications = <<Application(1, "url", "title")>>
    /\ questions = <<>>
    /\ responses = {}
    /\ g_pc = "idle"
    /\ g_question = 0
    /\ user_info = <<>>
    /\ tasks = <<>>
    /\ inflight = <<>>
    /\ notifications = {}
    /\ reminders = {Reminder(1, 1, 1, "deadline", 0), Reminder(2, 2, 1, "custom", 1),
                    Reminder(3, 1, 1, "custom", 2)}
    /\ now = 1
    /\ deadlines = <<NoTime>>
    /\ due_runs = <<DueRun, DueRun>>
    /\ status_history = <<>>

NextDue ==
    \/ \E k \in DOMAIN due_runs : CountDueReminders(k)
    \/ \E k \in DOMAIN due_runs : FetchDueReminders(k)
    \/ \E k \in DOMAIN due_runs, o \in LoopOutcomes : ProcessDueReminder(k, o)
    \/ \E k \in DOMAIN due_runs : FinishCheckDueReminders(k)
    \/ \E k \in DOMAIN due_runs, l \in LostAt : WorkerLost(k, l)
    \/ \E ids \in SUBSET {r.id : r \in reminders} :
          ids # {} /\ ReminderAdmin_mark_as_pending(ids)

SpecDue == InitDue /\ [][NextDue]_vars

\* SpecOverlap: the same two executions without the admin action
NextOverlap ==
    \/ \E k \in DOMAIN due_runs : CountDueReminders(k)
    \/ \E k \in DOMAIN due_runs : FetchDueReminders(k)
    \/ \E k \in DOMAIN due_runs, o \in LoopOutcomes : ProcessDueReminder(k, o)
    \/ \E k \in DOMAIN due_runs : FinishCheckDueReminders(k)
    \/ \E k \in DOMAIN due_runs, l \in LostAt : WorkerLost(k, l)

SpecOverlap == InitDue /\ [][NextOverlap]_vars

\* ---------------------------------------------------------------------
\* Application status and its history: tracker/tasks.py
\* update_application_status_task, tracker/views.py ApplicationUpdateView,
\* tracker/api_views.py ApplicationViewSet
\* ---------------------------------------------------------------------

\* some of Application.STATUS_CHOICES, the first being the default
Statuses == {"draft", "submitted", "offer"}

\* ApplicationStatus.objects.create(application, status, changed_by)
ApplicationStatus(application, status, changed_by) ==
    [application |-> application, status |-> status, changed_by |-> changed_by]

\* update_application_status_task(application_id, new_status): nothing is
\* written when the status is the same; Application.DoesNotExist is raised
\* for an unknown id
update_application_status_task(application_id, new_status) ==
    /\ Len(status_history) < MaxRequests
    /\ IF application_id \in DOMAIN applications
          /\ applications[application_id].status # new_status
       THEN /\ applications' = [applications EXCEPT
                                   ![application_id].status = new_status]
            /\ status_history' = Append(status_history,
                                    ApplicationStatus(application_id, new_status,
                                                      "manual"))
       ELSE UNCHANGED <<applications, status_history>>
    /\ UNCHANGED <<documents, extracted_info, questions, responses>>
    /\ UNCHANGED <<notifications, reminders, now, deadlines, due_runs, inflight>>
    /\ UNCHANGED <<parserVars, genVars, tasks>>

\* ApplicationUpdateView.form_valid: the form's status is one of the choices;
\* a history row is created when it differs from the stored one, then the
\* form is saved
ApplicationUpdateView_form_valid(user, pk, status) ==
    /\ Len(status_history) < MaxRequests
    /\ pk \in DOMAIN applications
    /\ applications[pk].user = user
    /\ LET old_status == applications[pk].status
           new_status == status
       IN  /\ status_history' =
                 IF old_status # new_status
                 THEN Append(status_history,
                             ApplicationStatus(pk, new_status, "user_update"))
                 ELSE status_history
           /\ applications' = [applications EXCEPT ![pk].status = new_status]
    /\ UNCHANGED <<documents, extracted_info, questions, responses>>
    /\ UNCHANGED <<notifications, reminders, now, deadlines, due_runs, inflight>>
    /\ UNCHANGED <<parserVars, genVars, tasks>>

\* POST /api/applications/<pk>/change_status/: 400 without a status;
\* otherwise a history row is created and the status is saved, whatever the
\* status was
ApplicationViewSet_change_status(user, pk, new_status) ==
    /\ Len(status_history) < MaxRequests
    /\ pk \in DOMAIN applications
    /\ applications[pk].user = user
    /\ IF new_status = ""
       THEN UNCHANGED <<applications, status_history>>
       ELSE /\ status_history' = Append(status_history,
                                    ApplicationStatus(pk, new_status, "manual"))
            /\ applications' = [applications EXCEPT ![pk].status = new_status]
    /\ UNCHANGED <<documents, extracted_info, questions, responses>>
    /\ UNCHANGED <<notifications, reminders, now, deadlines, due_runs, inflight>>
    /\ UNCHANGED <<parserVars, genVars, tasks>>

\* PUT or PATCH /api/applications/<pk>/ with a status:
\* ApplicationCreateUpdateSerializer.update sets the validated fields and
\* saves
ApplicationViewSet_update(user, pk, status) ==
    /\ pk \in DOMAIN applications
    /\ applications[pk].user = user
    /\ applications' = [applications EXCEPT ![pk].status = status]
    /\ UNCHANGED <<documents, extracted_info, questions, responses>>
    /\ UNCHANGED <<notifVars, inflight>>
    /\ UNCHANGED <<parserVars, genVars, tasks>>

\* ---------------------------------------------------------------------
\* SpecStatus: an application of each of two users, their status changed by
\* the task, the edit form and the REST API
\* ---------------------------------------------------------------------
InitStatus ==
    /\ ParserIdle
    /\ documents = <<>>
    /\ extracted_info = <<>>
    /\ applications = <<Application(1, "url", "title"), Application(2, "url", "title")>>
    /\ questions = <<>>
    /\ responses = {}
    /\ g_pc = "idle"
    /\ g_question = 0
    /\ user_info = <<>>
    /\ tasks = <<>>
    /\ RestIdle

NextStatus ==
    \/ \E a \in 1..3, st \in Statuses : update_application_status_task(a, st)
    \/ \E u \in Users, pk \in 1..2, st \in Statuses :
          ApplicationUpdateView_form_valid(u, pk, st)
    \/ \E u \in Users, pk \in 1..2, st \in Statuses \cup {""} :
          ApplicationViewSet_change_status(u, pk, st)
    \/ \E u \in Users, pk \in 1..2, st \in Statuses :
          ApplicationViewSet_update(u, pk, st)

SpecStatus == InitStatus /\ [][NextStatus]_vars

\* ---------------------------------------------------------------------
\* Spec: the document pipeline.  The views store documents and send task
\* messages, the workers run them.
\* ---------------------------------------------------------------------
Init ==
    /\ ParserIdle
    /\ documents = <<>>
    /\ extracted_info = <<>>
    /\ applications = <<>>
    /\ questions = <<>>
    /\ responses = {}
    /\ g_pc = "idle"
    /\ g_question = 0
    /\ user_info = <<>>
    /\ tasks = <<>>
    /\ RestIdle

Next ==
    \/ \E u \in Requesters, f \in WebUploadFiles : document_upload_view(u, f)
    \/ \E u \in Requesters, f \in RestUploadFiles : DocumentViewSet_upload(u, f)
    \/ \E u \in Requesters, pk \in DOMAIN documents, m \in {"GET", "POST"} :
          reprocess_document_view(u, pk, m)
    \/ \E i \in DOMAIN tasks, o \in LibOutcomes : process_document_task(i, o)
    \/ \E i \in DOMAIN tasks, o \in LibOutcomes, a \in {"api_error", "resume"} :
          extract_information_task(i, o, a)

Spec == Init /\ [][Next]_vars

\* ---------------------------------------------------------------------
\* SpecTasks: one message sent by a view (an upload, a quick application, a
\* regeneration) and every attempt the workers make at it and at the
\* messages it sends in turn
\* ---------------------------------------------------------------------
ViewTasks == {"process_document_task", "scrape_url_task", "generate_response_task"}

InitTasks ==
    /\ ParserIdle
    /\ \E f \in {<<"cv", ".", "pdf">>, <<"cv", ".", "txt">>, <<>>} :
          documents \in {<<Document(1, f)>>,
                         <<[Document(1, f) EXCEPT !.is_processed = TRUE,
                                                  !.processed_at = NOW]>>}
    /\ extracted_info \in
           {<<>>,
            SaveExtractedData(<<>>, 1, GeminiExtractDocumentInformation("transcript"),
                              extraction_types)}
    /\ applications = <<Application(1, "url", "Processing...")>>
    /\ questions = <<Question(1, 1, TRUE)>>
    /\ responses = {}
    /\ g_pc = "idle"
    /\ g_question = 0
    /\ user_info = <<>>
    /\ \E n \in ViewTasks : tasks = <<Task(n, 1, "", 0)>>
    /\ RestIdle

NextTasks ==
    \/ \E i \in DOMAIN tasks, o \in LibOutcomes : process_document_task(i, o)
    \/ \E i \in DOMAIN tasks, o \in LibOutcomes, a \in ExtractionAnswers :
          extract_information_task(i, o, a)
    \/ \E i \in DOMAIN tasks, o \in ScrapeOutcomes : scrape_url_task(i, o)
    \/ \E i \in DOMAIN tasks, f \in {"one", "none", "api_error", "bad_json"} :
          extract_questions_task(i, f)
    \/ \E i \in DOMAIN tasks, o \in HashOrders, ok \in BOOLEAN :
          generate_response_task(i, o, ok)

SpecTasks == InitTasks /\ [][NextTasks]_vars

\* ---------------------------------------------------------------------
\* SpecMerge: rows are stored one at a time, then one attempt of
\* generate_response_task gathers the profile
\* ---------------------------------------------------------------------
TypesIn(table) == {table[i].data_type : i \in DOMAIN table}

\* extract_information_task storing one extracted field (documents/tasks.py
\* 212-230)
StoreExtractedInformation(document, data_type, content) ==
    /\ g_pc = "idle"
    /\ Len(extracted_info) < MaxRecords
    /\ Cardinality(TypesIn(extracted_info) \cup {data_type}) <= MaxTypes
    /\ extracted_info' =
           ExtractedInformationCreate(extracted_info, document, data_type, content)
    /\ UNCHANGED <<documents, applications, questions, responses>>
    /\ UNCHANGED <<parserVars, genVars, tasks, restVars>>

GenerateResponseAttempt(question_id, order, gemini_ok) ==
    /\ g_pc = "idle"
    /\ \E outcome \in {"success", "raised"} :
          /\ generate_response_body(question_id, order, gemini_ok, outcome)
          /\ g_pc' = outcome
    /\ g_question' = question_id
    /\ UNCHANGED <<documents, extracted_info, applications, questions>>
    /\ UNCHANGED <<parserVars, tasks, restVars>>

InitMerge ==
    /\ ParserIdle
    /\ documents = <<[Document(1, <<"cv", ".", "pdf">>)
                        EXCEPT !.is_processed = TRUE, !.processed_at = NOW],
                     [Document(2, <<"cv", ".", "pdf">>)
                        EXCEPT !.is_processed = TRUE, !.processed_at = NOW]>>
    /\ extracted_info = <<>>
    /\ applications = <<Application(1, "url", "title")>>
    /\ questions = <<Question(1, 1, FALSE)>>
    /\ responses = {}
    /\ g_pc = "idle"
    /\ g_question = 0
    /\ user_info = <<>>
    /\ tasks = <<>>
    /\ RestIdle

NextMerge ==
    \/ \E d \in DOMAIN documents, t \in DataTypes, c \in ContentValues :
          StoreExtractedInformation(d, t, c)
    \/ \E q \in DOMAIN questions, o \in HashOrders, ok \in BOOLEAN :
          GenerateResponseAttempt(q, o, ok)

SpecMerge == InitMerge /\ [][NextMerge]_vars

\* ---------------------------------------------------------------------
\* Properties of the retry policy and of the attempts (SpecTasks)
\* ---------------------------------------------------------------------
\* the last attempt at message t raised with retry count k
RaisedAt(t, k) == t.status = "raised" /\ t.executions = k + 1

\* C6: under exponential_backoff_retry(n, d) an attempt with retry count k
\* that raises is sent again with countdown d * 2^k when k < n and is not
\* sent again, ending in failure, when k = n; so the body runs at most n + 1
\* times: n = 3 with 60, 120, 240 s for process_document_task and
\* extract_information_task, n = 5 with 30, 60, 120, 240, 480 s for
\* scrape_url_task.
C6_BackoffRetry ==
    \A i \in DOMAIN tasks :
        LET t == tasks[i]
            n == IF t.name = "scrape_url_task" THEN 5 ELSE 3
            d == IF t.name = "scrape_url_task" THEN 30 ELSE 60
        IN  /\ t.executions <= n + 1
            /\ \A k \in 0..(n - 1) :
                   RaisedAt(t, k) =>
                       /\ t.state = "queued"
                       /\ t.retries = k + 1
                       /\ t.countdown = d * (2 ^ k)
            /\ RaisedAt(t, n) => t.state = "failure"
            /\ t.status = "raised" => t.executions \in 1..(n + 1)
            /\ (t.name \in {"process_document_task", "extract_information_task"}
                    /\ t.status = "raised" /\ t.state = "queued")
                   => t.countdown \in {60, 120, 240}
            /\ (t.name = "scrape_url_task" /\ t.status = "raised" /\ t.state = "queued")
                   => t.countdown \in {30, 60, 120, 240, 480}

\* C6 witness: scrape_url_task raised on all six attempts, the last retry
\* having been sent with a countdown of 480 s, and was given up
C6_Witness ==
    \E i \in DOMAIN tasks :
        /\ tasks[i].name = "scrape_url_task"
        /\ tasks[i].state = "failure"
        /\ tasks[i].executions = 6
        /\ tasks[i].retries = 5
        /\ tasks[i].countdown = 480

Attempt(i, name) ==
    /\ i \in DOMAIN tasks
    /\ tasks[i].name = name
    /\ tasks'[i].executions = tasks[i].executions + 1

\* C22: an attempt of process_document_task for an existing document that
\* finds no file attached or whose parsing fails sends no
\* extract_information_task, stores no ExtractedInformation row, ends in an
\* error and leaves the document with is_processed false
C22_FailedProcessingLeavesNothing ==
    [][\A i \in DOMAIN tasks :
         (/\ Attempt(i, "process_document_task")
          /\ tasks[i].arg \in DOMAIN documents
          /\ \/ documents[tasks[i].arg].file = <<>>
             \/ tasks'[i].step_failed) =>
            /\ Len(tasks') = Len(tasks)
            /\ extracted_info' = extracted_info
            /\ tasks'[i].status = "raised"
            /\ ~documents'[tasks[i].arg].is_processed]_vars

\* C22 witness: the parsing of a document that an earlier run had processed
\* failed, and the document is marked unprocessed with nothing sent
C22_Witness ==
    /\ Len(tasks) = 1
    /\ tasks[1].name = "process_document_task"
    /\ tasks[1].step_failed
    /\ tasks[1].status = "raised"
    /\ documents[1].processed_at = NOW
    /\ ~documents[1].is_processed

\* C23 as stated: a Document never has two ExtractedInformation rows of the
\* same data_type, whatever runs of process_document_task and
\* extract_information_task took place on it
C23_OneRowPerDataType ==
    \A i, j \in DOMAIN extracted_info :
        (/\ extracted_info[i].document = extracted_info[j].document
         /\ extracted_info[i].data_type = extracted_info[j].data_type) => i = j

\* C24 as stated: in every reachable state a Document has processed_at set
\* if and only if is_processed is true
C24_ProcessedAtIffProcessed ==
    \A d \in DOMAIN documents :
        (documents[d].processed_at # NULL) <=> documents[d].is_processed

\* the rows this step appended to the ExtractedInformation table
NewRows == SubSeq(extracted_info', Len(extracted_info) + 1, Len(extracted_info'))

\* the schema fields of an extraction whose value is a non-blank string or a
\* non-empty list
StorableFields(extracted_data) ==
    {f \in DataTypes :
        /\ f \in DOMAIN extracted_data
        /\ \/ /\ extracted_data[f].kind = "str"
              /\ \E k \in DOMAIN extracted_data[f].val : extracted_data[f].val[k] # " "
           \/ /\ extracted_data[f].kind = "list"
              /\ extracted_data[f].val # <<>>}

\* C11, the storing part: a successful attempt of extract_information_task
\* appends exactly one row, holding the value, for each storable schema
\* field, no other row, and returns their number as extracted_records
C11_Stored(i) ==
    LET r == tasks'[i].result
        d == tasks[i].arg
    IN  /\ Len(extracted_info') >= Len(extracted_info)
        /\ SubSeq(extracted_info', 1, Len(extracted_info)) = extracted_info
        /\ \A f \in StorableFields(r.extracted_data) :
               Cardinality({k \in DOMAIN NewRows :
                               /\ NewRows[k].data_type = f
                               /\ NewRows[k].document = d
                               /\ NewRows[k].content = r.extracted_data[f]}) = 1
        /\ \A k \in DOMAIN NewRows :
               NewRows[k].data_type \in StorableFields(r.extracted_data)
        /\ Len(NewRows) = Cardinality(StorableFields(r.extracted_data))
        /\ r.extracted_records = Len(NewRows)

\* C11 as stated: the storing part, and extracted_records equals the length
\* of the returned extraction_types
C11_RecordsMatchTypes ==
    [][\A i \in DOMAIN tasks :
         (Attempt(i, "extract_information_task") /\ tasks'[i].state = "success") =>
            /\ C11_Stored(i)
            /\ tasks'[i].result.extracted_records =
                   Len(tasks'[i].result.extraction_types)]_vars

\* the storing part alone
C11_StoredOnly ==
    [][\A i \in DOMAIN tasks :
         (Attempt(i, "extract_information_task") /\ tasks'[i].state = "success") =>
            C11_Stored(i)]_vars

\* ---------------------------------------------------------------------
\* Properties of the Response table (SpecResponses)
\* ---------------------------------------------------------------------
ResponsesOf(question) == {r \in responses : r.question = question}

\* C12: in every state each Question has at most one Response, however the
\* attempts of generate_response_task and the edit_response_view requests
\* for it interleave; and a generation that finds or meets a Response of
\* its question updates that row and adds none.
C12_OneResponsePerQuestion ==
    /\ [](\A q \in DOMAIN questions : Cardinality(ResponsesOf(q)) <= 1)
    /\ [][\A k \in DOMAIN inflight :
            (/\ inflight[k].kind = "generate"
             /\ inflight[k].pc # "done"
             /\ inflight'[k].pc = "done"
             /\ ResponsesOf(inflight[k].question) # {}) =>
                /\ {r.id : r \in responses'} = {r.id : r \in responses}
                /\ \A r \in ResponsesOf(inflight[k].question)' :
                      /\ r.generated_response = inflight[k].text
                      /\ r.is_ai_generated]_vars

\* C12 witness: two writers both found no Response for question 1; the
\* second INSERT met the first one's row, and the question has one Response
C12_Witness ==
    /\ \E k \in DOMAIN inflight :
          /\ inflight[k].kind = "generate"
          /\ inflight[k].question = 1
          /\ inflight[k].conflict
          /\ inflight[k].pc = "done"
    /\ Cardinality(ResponsesOf(1)) = 1

\* C26 as stated: a generation that finds the question's Response leaves
\* the user's edited_response, the version counter and last_edited_at of
\* that Response as they were
C26_GenerationKeepsVersion ==
    [][\A k \in DOMAIN inflight :
         (/\ inflight[k].kind = "generate"
          /\ inflight[k].pc # "done"
          /\ inflight'[k].pc = "done"
          /\ ResponsesOf(inflight[k].question) # {}) =>
            \A r \in ResponsesOf(inflight[k].question) :
               \A w \in ResponsesOf(inflight[k].question)' :
                  /\ w.edited_response = r.edited_response
                  /\ w.version = r.version
                  /\ w.last_edited_at = r.last_edited_at]_vars

\* C13: an attempt of generate_response_task in which the generator failed
\* and returned the empty text completes with status 'success', and then the
\* question has a Response with generated_response = '', is_ai_generated
\* true and the generation prompt stored.
C13_EmptyGenerationStored ==
    [][\A i \in DOMAIN tasks :
         (Attempt(i, "generate_response_task") /\ tasks'[i].step_failed) =>
            /\ tasks'[i].status = "success"
            /\ tasks'[i].state = "success"
            /\ Cardinality({r \in responses' : r.question = tasks[i].arg}) = 1
            /\ \A r \in responses' :
                  r.question = tasks[i].arg =>
                     /\ r.generated_response = ""
                     /\ r.is_ai_generated
                     /\ r.generation_prompt = "prompt"
                     /\ r.generated_at = NOW]_vars

\* C13 witness: the generator failed, the task succeeded and the Response
\* holds the empty text
C13_Witness ==
    \E i \in DOMAIN tasks :
        /\ tasks[i].name = "generate_response_task"
        /\ tasks[i].step_failed
        /\ tasks[i].state = "success"
        /\ \E r \in responses :
              /\ r.question = tasks[i].arg
              /\ r.generated_response = ""
              /\ r.generation_prompt = "prompt"

\* ---------------------------------------------------------------------
\* Properties of batch generation (SpecBatch)
\* ---------------------------------------------------------------------
\* the messages this step sent
NewTasks == SubSeq(tasks', Len(tasks) + 1, Len(tasks'))

\* the questions a batch run for message i must select
Selected(i) ==
    IF tasks[i].payload = "regenerate=True"
    THEN {q \in DOMAIN questions : questions[q].application = tasks[i].arg}
    ELSE {q \in DOMAIN questions :
             /\ questions[q].application = tasks[i].arg
             /\ \A r \in responses : r.question # q}

\* C14: a run of batch_generate_responses_task sends exactly one
\* generate_response_task for each selected question and nothing else; the
\* selected questions are the application's questions without a Response
\* when regenerate is false and all the application's questions when it is
\* true, never a question of another application.
C14_BatchSendsOnePerSelected ==
    [][\A i \in DOMAIN tasks :
         Attempt(i, "batch_generate_responses_task") =>
            /\ \A q \in Selected(i) :
                  Cardinality({k \in DOMAIN NewTasks :
                                  NewTasks[k] = Task("generate_response_task", q, "", 0)}) = 1
            /\ \A k \in DOMAIN NewTasks :
                  /\ NewTasks[k].name = "generate_response_task"
                  /\ NewTasks[k].arg \in Selected(i)
            /\ Len(NewTasks) = Cardinality(Selected(i))
            /\ \A j \in DOMAIN tasks : j # i => tasks'[j] = tasks[j]]_vars

\* C14 witness: a batch without regenerate ran on application 1, which has
\* an answered and an unanswered question, and sent one generation, for the
\* unanswered one
C14_Witness ==
    \E i, j \in DOMAIN tasks, q1, q2 \in DOMAIN questions :
        /\ tasks[i].name = "batch_generate_responses_task"
        /\ tasks[i].payload = "regenerate=False"
        /\ tasks[i].status = "success"
        /\ tasks[i].result.questions_to_process = 1
        /\ tasks[i].arg = 1
        /\ q1 # q2
        /\ questions[q1].application = 1
        /\ questions[q2].application = 1
        /\ \E r \in responses : r.question = q1
        /\ \A r \in responses : r.question # q2
        /\ tasks[j] = Task("generate_response_task", q2, "", 0)
        /\ Len(tasks) = 2

\* C15 as stated: a run of batch_generate_responses_task on an application
\* without questions sends no generate_response_task and returns a result
\* whose responses_generated is 0
C15_NoQuestionsZeroGenerated ==
    [][\A i \in DOMAIN tasks :
         (/\ Attempt(i, "batch_generate_responses_task")
          /\ \A q \in DOMAIN questions : questions[q].application # tasks[i].arg) =>
            /\ NewTasks = <<>>
            /\ tasks'[i].result.returned
            /\ "responses_generated" \in DOMAIN tasks'[i].result
            /\ tasks'[i].result.responses_generated = 0]_vars

\* the sending part of C15 alone
C15_NoQuestionsNothingSent ==
    [][\A i \in DOMAIN tasks :
         (/\ Attempt(i, "batch_generate_responses_task")
          /\ \A q \in DOMAIN questions : questions[q].application # tasks[i].arg) =>
            /\ NewTasks = <<>>
            /\ tasks'[i].result.status = "skipped"]_vars

\* C16 as stated: when scrape_url_task succeeds, on a page that has a title,
\* for an application whose title is the placeholder 'Processing...', the
\* application's title becomes the scraped title
C16_PlaceholderTitleReplaced ==
    [][\A i \in DOMAIN tasks :
         (/\ Attempt(i, "scrape_url_task")
          /\ tasks'[i].state = "success"
          /\ tasks'[i].result.scrape_result.title # ""
          /\ applications[tasks[i].arg].title = "Processing...") =>
            /\ applications'[tasks[i].arg].title = tasks'[i].result.scrape_result.title
            /\ applications'[tasks[i].arg].title # "Processing..."]_vars

\* ---------------------------------------------------------------------
\* Properties of ownership (SpecOwnership)
\* ---------------------------------------------------------------------
\* this step is a request of the user
RequestBy(u) ==
    \/ \E a \in DOMAIN applications, o \in {1, 2} : add_question_view(u, a, o)
    \/ \E a \in DOMAIN applications, t \in {"title", "renamed"} :
          ApplicationViewSet_partial_update(u, a, t)
    \/ \E a \in DOMAIN applications, o \in {1, 2} : QuestionViewSet_create(u, a, o)
    \/ \E q \in DOMAIN questions, a \in DOMAIN applications :
          QuestionViewSet_partial_update(u, q, a)

\* the questions attached to an application
ChildrenOf(a) == {q \in DOMAIN questions : questions[q].application = a}

\* C18 as stated: a request of a user leaves every application of another
\* user unchanged, the set of its questions included
C18_OthersObjectsUntouched ==
    [][\A u \in Users :
         RequestBy(u) =>
            \A a \in DOMAIN applications :
               applications[a].user # u =>
                  /\ applications'[a] = applications[a]
                  /\ ChildrenOf(a)' = ChildrenOf(a)
                  /\ \A q \in ChildrenOf(a) : questions'[q] = questions[q]]_vars

\* ---------------------------------------------------------------------
\* Properties of the notification cleanup (SpecCleanup)
\* ---------------------------------------------------------------------
\* C19: whatever days is and whatever the state, a run of
\* cleanup_old_notifications_task keeps every unread notification, and each
\* notification it deletes is read with a read_at before now minus days
C19_CleanupDeletesOnlyOldRead ==
    [][\A d \in CleanupDays :
         cleanup_old_notifications_task(d) =>
            /\ \A n \in notifications : ~n.is_read => n \in notifications'
            /\ \A n \in notifications \ notifications' :
                  /\ n.is_read
                  /\ n.read_at # NoTime
                  /\ n.read_at[1] < now - d]_vars

\* a run has deleted a notification while an unread one, once read at a time
\* as old, is still there
C19_Witness ==
    /\ Cardinality(notifications) = MaxRows
    /\ \E n \in notifications :
          /\ ~n.is_read
          /\ n.read_at # NoTime
          /\ n.read_at[1] < now

\* C29: in every reachable state a Notification has read_at set if and only
\* if is_read is true, whichever path marks it read (Notification.mark_as_read,
\* the web mark-read and mark-all-read views, the REST mark_read and
\* mark_all_read actions), and marking a read notification again does not
\* change read_at.
C29_ReadAtIffRead ==
    \A n \in notifications : n.read_at # NoTime <=> n.is_read

\* ---------------------------------------------------------------------
\* Properties of the deadline reminders (SpecReminders)
\* ---------------------------------------------------------------------
\* the deadline reminders of an application scheduled at a time
DeadlineReminders(application, t) ==
    {r \in reminders :
        /\ r.application = application
        /\ r.reminder_type = "deadline"
        /\ r.scheduled_for = t}

NotificationsOf(reminder_id) ==
    {n \in notifications : n.message = reminder_id}

\* the positions of the email tasks sent for a reminder's notifications
EmailTasksOf(reminder_id) ==
    {i \in DOMAIN tasks :
        /\ tasks[i].name = "send_notification_email_task"
        /\ tasks[i].arg \in {n.id : n \in NotificationsOf(reminder_id)}}

\* C27: each Reminder gives rise to at most one Notification and at most one
\* send_notification_email_task, even when two executions of
\* check_due_reminders_task overlap or one is run again after a worker loss.
C27_OneNotificationPerReminder ==
    \A r \in reminders :
        /\ Cardinality(NotificationsOf(r.id)) <= 1
        /\ Cardinality(EmailTasksOf(r.id)) <= 1

\* the reminder a run is working on
CurrentReminder(k) ==
    CHOOSE r \in reminders : r.id = Head(due_runs[k].due)

\* run k has completed an iteration of its loop with success
Sent(k) ==
    /\ due_runs[k].pc = "loop"
    /\ due_runs'[k].pc = "loop"
    /\ due_runs'[k].sent_count = due_runs[k].sent_count + 1

HistoryOf(application) ==
    {i \in DOMAIN status_history : status_history[i].application = application}

\* C30: whenever an application has at least one ApplicationStatus history
\* entry, the status of its most recent entry equals the application's
\* current status, after any sequence of completed status changes through
\* update_application_status_task, the edit form and the REST API
\* (change_status or plain update).
C30_LatestHistoryIsCurrentStatus ==
    \A a \in DOMAIN applications :
       HistoryOf(a) # {} =>
          LET latest == CHOOSE i \in HistoryOf(a) : \A j \in HistoryOf(a) : j <= i
          IN  status_history[latest].status = applications[a].status

\* ---------------------------------------------------------------------
\* Properties of the workflow (SpecWorkflow)
\* ---------------------------------------------------------------------
\* C25 as stated: after one execution of scrape_and_extract_workflow_task
\* and the tasks that follow from it, question extraction has run at most
\* once and the extracted questions of the application carry pairwise
\* distinct order values
C25_QuestionsExtractedOnce ==
    /\ Cardinality({i \in DOMAIN tasks :
                       /\ tasks[i].name = "extract_questions_task"
                       /\ tasks[i].status = "success"}) <= 1
    /\ \A i, j \in DOMAIN questions :
          (/\ questions[i].application = questions[j].application
           /\ questions[i].is_extracted
           /\ questions[j].is_extracted
           /\ questions[i].order = questions[j].order) => i = j

\* ---------------------------------------------------------------------
\* Properties of the document pipeline (Spec)
\* ---------------------------------------------------------------------
\* the texts parse_document can return for a file
ParsedTexts(file) ==
    {ParseDocument(file, o).text : o \in {o \in LibOutcomes : ParseDocument(file, o).success}}

\* C8: an attempt of process_document_task whose parse succeeded sends
\* exactly one extract_information_task for the document, carrying the
\* extracted text, sets is_processed and processed_at and returns 'success';
\* an attempt whose parse did not succeed sends nothing.
C8_ProcessSendsOneExtraction ==
    [][\A i \in DOMAIN tasks :
         Attempt(i, "process_document_task") =>
            LET d == tasks[i].arg
            IN  IF tasks'[i].step_failed
                THEN /\ Len(tasks') = Len(tasks)
                     /\ tasks'[i].status = "raised"
                     /\ ~documents'[d].is_processed
                ELSE /\ Len(tasks') = Len(tasks) + 1
                     /\ tasks'[Len(tasks')] \in
                            {Task("extract_information_task", d, text, 2) :
                                text \in ParsedTexts(documents[d].file)}
                     /\ \A j \in DOMAIN tasks : j # i => tasks'[j] = tasks[j]
                     /\ documents'[d].is_processed
                     /\ documents'[d].processed_at = NOW
                     /\ tasks'[i].status = "success"
                     /\ tasks'[i].state = "success"]_vars

\* C8 witness: process_document_task succeeded on its second attempt and its
\* extract_information_task, carrying the text, is queued
C8_Witness ==
    \E i, j \in DOMAIN tasks :
        /\ tasks[i].name = "process_document_task"
        /\ tasks[i].state = "success"
        /\ tasks[i].executions = 2
        /\ tasks[j].name = "extract_information_task"
        /\ tasks[j].state = "queued"
        /\ tasks[j].payload = "lorem"
        /\ tasks[j].arg = tasks[i].arg
        /\ documents[tasks[i].arg].is_processed

\* C9 as stated: when an attempt of extract_information_task completes
\* successfully the document has is_processed = true and processed_at set
C9_ExtractionMarksProcessed ==
    [][\A i \in DOMAIN tasks :
         (Attempt(i, "extract_information_task") /\ tasks'[i].state = "success") =>
            /\ documents'[tasks[i].arg].is_processed
            /\ documents'[tasks[i].arg].processed_at # NULL]_vars

\* C10 as stated: a request that stores a Document sends a
\* process_document_task for it
C10_UploadSendsProcessing ==
    [][Len(documents') > Len(documents) =>
         /\ Len(tasks') = Len(tasks) + 1
         /\ tasks'[Len(tasks')] = Task("process_document_task", Len(documents'), "", 0)]_vars

\* C17: a POST to reprocess_document_view for one's own document sets
\* is_processed = false and processed_at = null, deletes every
\* ExtractedInformation row of the document, no other row, and sends exactly
\* one process_document_task for it; a request of another method changes
\* nothing.
C17_ReprocessResets ==
    [][\A u \in Users, pk \in DOMAIN documents :
         /\ reprocess_document_view(u, pk, "POST") =>
               /\ ~documents'[pk].is_processed
               /\ documents'[pk].processed_at = NULL
               /\ \A d \in DOMAIN documents : d # pk => documents'[d] = documents[d]
               /\ \A k \in DOMAIN extracted_info' : extracted_info'[k].document # pk
               /\ extracted_info' =
                     SelectSeq(extracted_info, LAMBDA row : row.document # pk)
               /\ tasks' = Append(tasks, Task("process_document_task", pk, "", 0))
         /\ reprocess_document_view(u, pk, "GET") =>
               UNCHANGED <<documents, extracted_info, tasks>>]_vars

\* C17 witness: a document was processed, three rows were extracted from
\* it, and the owner's POST has emptied the table, reset the document and
\* sent the second process_document_task
C17_Witness ==
    /\ Len(tasks) = 3
    /\ tasks[1].name = "process_document_task" /\ tasks[1].state = "success"
    /\ tasks[2].name = "extract_information_task" /\ tasks[2].state = "success"
    /\ tasks[2].result.extracted_records = 3
    /\ tasks[3] = Task("process_document_task", tasks[1].arg, "", 0)
    /\ extracted_info = <<>>
    /\ ~documents[tasks[1].arg].is_processed
    /\ documents[tasks[1].arg].processed_at = NULL

\* ---------------------------------------------------------------------
\* Properties of the knowledge merge (SpecMerge)
\* ---------------------------------------------------------------------
\* the user owning the question of the last attempt
GenOwner == applications[questions[g_question].application].user

\* the attempt has gathered the profile
ProfileBuilt == g_pc \in {"success", "raised"} /\ g_question \in DOMAIN questions

\* ids of the owner's list-valued rows of a data type
ListRowIds(user, data_type) ==
    {i \in DOMAIN extracted_info :
        /\ documents[extracted_info[i].document].user = user
        /\ extracted_info[i].data_type = data_type
        /\ extracted_info[i].content.kind = "list"}

\* ids of all the owner's rows of a data type
TypeRowIds(user, data_type) ==
    {i \in DOMAIN extracted_info :
        /\ documents[extracted_info[i].document].user = user
        /\ extracted_info[i].data_type = data_type}

\* the newest row among ids
Newest(ids) ==
    CHOOSE i \in ids :
        \A j \in ids : extracted_info[j].extracted_at <= extracted_info[i].extracted_at

NoDuplicates(xs) == \A i, j \in DOMAIN xs : xs[i] = xs[j] => i = j

RECURSIVE ConcatContents(_)
ConcatContents(rows) ==
    IF rows = <<>> THEN <<>>
    ELSE Head(rows).content.val \o ConcatContents(Tail(rows))

\* C1 (as claimed): for skills, certifications and languages the merged value
\* is a duplicate-free list whose entries are exactly the entries of all the
\* owner's list-valued rows of that type, for any number of rows and any
\* repetition within or across rows.
C1_DedupUnion ==
    ProfileBuilt =>
        \A t \in SimpleListTypes :
            ListRowIds(GenOwner, t) # {} =>
                /\ t \in DOMAIN user_info
                /\ user_info[t].kind = "list"
                /\ NoDuplicates(user_info[t].val)
                /\ Range(user_info[t].val) =
                       UNION {Range(extracted_info[i].content.val) :
                                 i \in ListRowIds(GenOwner, t)}

\* C2 (as claimed): for education, experience and projects the merged list is
\* the concatenation of all the owner's list-valued rows of that type in
\* descending extracted_at order, nothing dropped or deduplicated.
C2_ConcatAllLists ==
    ProfileBuilt =>
        \A t \in {"education", "experience", "projects"} :
            ListRowIds(GenOwner, t) # {} =>
                /\ t \in DOMAIN user_info
                /\ user_info[t] =
                       List(ConcatContents(
                           order_by_desc(extracted_info, ListRowIds(GenOwner, t))))

\* C2 (amended): when the owner's most recent row of the type is list-valued,
\* the merged list is the concatenation of all the owner's list-valued rows of
\* that type in descending extracted_at order (its length the sum of their
\* lengths); when the most recent row is a string, the merged value is that
\* string and the list-valued rows of the type are left out.
C2_ConcatWhenNewestIsList ==
    ProfileBuilt =>
        \A t \in {"education", "experience", "projects"} :
            TypeRowIds(GenOwner, t) # {} =>
                /\ t \in DOMAIN user_info
                /\ IF extracted_info[Newest(TypeRowIds(GenOwner, t))].content.kind = "list"
                   THEN user_info[t] =
                            List(ConcatContents(
                                order_by_desc(extracted_info, ListRowIds(GenOwner, t))))
                   ELSE user_info[t] =
                            extracted_info[Newest(TypeRowIds(GenOwner, t))].content

\* C2 witness: two list-valued experience rows of the owner were concatenated,
\* the repeated entry kept
C2_Witness ==
    /\ g_pc = "success"
    /\ Cardinality(ListRowIds(GenOwner, "experience")) = 2
    /\ "experience" \in DOMAIN user_info
    /\ user_info["experience"] = List(<<"x", "y", "x">>)

\* ids of the owner's string-valued rows of a data type
StrRowIds(user, data_type) ==
    {i \in DOMAIN extracted_info :
        /\ documents[extracted_info[i].document].user = user
        /\ extracted_info[i].data_type = data_type
        /\ extracted_info[i].content.kind = "str"}

\* the string values of rows joined by a blank line
RECURSIVE JoinContents(_)
JoinContents(rows) ==
    IF Len(rows) = 1 THEN Head(rows).content.val
    ELSE Head(rows).content.val \o <<"\n\n">> \o JoinContents(Tail(rows))

\* C21: in the profile, the value of a type is of the kind (string or list)
\* of the owner's most recent row of the type, and a row of the other kind
\* met later leaves the held value as it is; so for name, email and phone
\* with a string held the profile is the value of the most recent row, older
\* ones ignored, and for summary with a string held the profile is the
\* string values of all the owner's rows joined by a blank line, most recent
\* first
C21_StringsNewestWinsSummaryJoined ==
    ProfileBuilt =>
        /\ \A t \in {"name", "email", "phone"} :
              (/\ TypeRowIds(GenOwner, t) # {}
               /\ extracted_info[Newest(TypeRowIds(GenOwner, t))].content.kind = "str") =>
                 /\ t \in DOMAIN user_info
                 /\ user_info[t] = extracted_info[Newest(TypeRowIds(GenOwner, t))].content
        /\ (/\ TypeRowIds(GenOwner, "summary") # {}
            /\ extracted_info[Newest(TypeRowIds(GenOwner, "summary"))].content.kind
                  = "str") =>
              /\ "summary" \in DOMAIN user_info
              /\ user_info["summary"] =
                    Str(JoinContents(order_by_desc(extracted_info,
                                                   StrRowIds(GenOwner, "summary"))))
        /\ \A t \in DataTypes :
              TypeRowIds(GenOwner, t) # {} =>
                 /\ t \in DOMAIN user_info
                 /\ user_info[t].kind =
                       extracted_info[Newest(TypeRowIds(GenOwner, t))].content.kind

\* C21 witness: two summaries of the owner were joined, the more recent first
C21_Witness ==
    /\ g_pc = "success"
    /\ Cardinality(StrRowIds(GenOwner, "summary")) = 2
    /\ "summary" \in DOMAIN user_info
    /\ user_info["summary"] = Str(<<"s2", "\n\n", "s1">>)

\* the tables that agree with the current one on the rows of user: any
\* selection of the other users' rows removed
RECURSIVE SubTable(_, _)
SubTable(table, keep) ==
    IF table = <<>> THEN <<>>
    ELSE LET rest == SubTable(SubSeq(table, 1, Len(table) - 1), keep)
         IN  IF Len(table) \in keep THEN Append(rest, table[Len(table)]) ELSE rest

AgreeingTables(user) ==
    LET own == {i \in DOMAIN extracted_info :
                   documents[extracted_info[i].document].user = user}
    IN  {SubTable(extracted_info, keep) :
            keep \in {k \in SUBSET (DOMAIN extracted_info) : own \subseteq k}}

\* C3: the profile handed to the generator is a function of the owner's rows
\* alone: every table that agrees with the current one on the owner's rows,
\* whatever rows other users have in it, yields the same profile (the order
\* of a deduplicated list being that of the worker's set iteration).
C3_ProfileDependsOnOwnerOnly ==
    ProfileBuilt =>
        \A table \in AgreeingTables(GenOwner) :
            \E o \in HashOrders : GatherUserInfo(table, GenOwner, o) = user_info

\* C3 witness: a profile was built while another user had a row of the same
\* data type with other content
C3_Witness ==
    /\ g_pc = "success"
    /\ \E i, j \in DOMAIN extracted_info :
          /\ documents[extracted_info[i].document].user = GenOwner
          /\ documents[extracted_info[j].document].user # GenOwner
          /\ extracted_info[i].data_type = extracted_info[j].data_type
          /\ extracted_info[i].content # extracted_info[j].content
          /\ user_info[extracted_info[i].data_type] = extracted_info[i].content

====
